---- MODULE Spec2Model ----
(***************************************************************************)
(* Expression evaluation core of the scripting engine (eval/expr.rs):      *)
(* variable resolution (search_imports, search_namespace,                  *)
(* search_scope_only), function-call evaluation with the resolution cache  *)
(* (eval_fn_call_expr) and the recursive expression walk (eval_expr),      *)
(* together with the part of the operator dispatch table                   *)
(* (func/builtin.rs) that the evaluator reaches.                           *)
(* The operator and op-assignment tables are also driven directly, and     *)
(* three leaf components have harnesses of their own: the 256-bit bloom    *)
(* filter (types/bloom_filter.rs), the serialisation of a value            *)
(* (serde/serialize.rs) and the integer conversions of to_dynamic          *)
(* (serde/ser.rs).                                                         *)
(*                                                                         *)
(* The recursive walk is unfolded into a stack machine: one frame per     *)
(* active call of eval_expr, one action per expression kind for the entry  *)
(* of the call and one per kind for the continuation after a child call    *)
(* returned.  Source positions are modelled by the path of the node in the *)
(* tree (the sequence of child indices from the root).                     *)
(***************************************************************************)
EXTENDS Integers, Sequences, FiniteSets, TLC

VARIABLES
    engine,     \* Engine: configuration, registered functions, modules, callbacks
    global,     \* GlobalRuntimeState: always_search_scope, imports, constants, num_operations
    lib,        \* names of the script-defined functions of the function library
    this_ptr,   \* the bound `this` value, or NoThis
    scope,      \* Scope: sequence of entries [name, value]
    caches,     \* Caches: the function resolution cache, hash -> entry
    ast,        \* the expression under evaluation (root of the tree)
    stack,      \* active calls of eval_expr, innermost last
    ret,        \* result handed back by the call that returned last, or NoRet
    trace,      \* history: entries and exits of eval_expr calls
    call,       \* the number of function calls made on their own so far
    out         \* the last variable resolution or function call made on its own

vars == <<engine, global, lib, this_ptr, scope, caches, ast, stack, ret, trace, call, out>>

(***************************************************************************)
(* Bounds of the model.                                                    *)
(***************************************************************************)
MaxScope == 2
MaxCalls == 2
MaxCeiling == 3
MaxArraySize == 1
IntBits == 8

----------------------------------------------------------------------------
(***************************************************************************)
(* Dynamic values.                                                         *)
(***************************************************************************)
KEYWORD_THIS == "this"
KEYWORD_GLOBAL == "global"

Dyn(ty, v) == [access |-> "ReadWrite", ty |-> ty, v |-> v]
UNIT == Dyn("()", 0)
BoolV(b) == Dyn("bool", b)
IntV(n) == Dyn("i64", n)
StrV(s) == Dyn("string", s)
Arr(s) == Dyn("array", s)
MapOf(s) == Dyn("map", s)
FnPtr(name) == Dyn("Fn", name)
Custom(n) == Dyn("T", n)
SharedOf(d) == Dyn("Shared", d)

\* Dynamic::set_access_mode(AccessMode::ReadOnly)
set_access_mode(d, mode) == [d EXCEPT !.access = mode]

\* Dynamic::flatten: a shared value yields its underlying value
flatten(d) == IF d.ty = "Shared" THEN d.v ELSE d

\* Dynamic::type_id (pierces the shared wrapper)
type_id(d) == IF d.ty = "Shared" THEN d.v.ty ELSE d.ty

\* Dynamic::is_variant: a host-supplied custom type
is_variant(d) == type_id(d) \in {"T", "U", "u8", "u16", "range", "range_incl"}

NoPos == <<-1>>
Ok(v) == [ok |-> TRUE, val |-> v]
Err(kind, info, pos) == [ok |-> FALSE, err |-> [kind |-> kind, info |-> info, pos |-> pos]]

\* EvalAltResult::fill_position: sets the position only when the error has none
fill_position(r, pos) ==
    IF r.err.pos = NoPos THEN [r EXCEPT !.err.pos = pos] ELSE r

\* Dynamic::as_bool: the bool, or the name of the offending type
as_bool(d) ==
    IF d.ty = "bool" THEN [ok |-> TRUE, b |-> d.v] ELSE [ok |-> FALSE, typ |-> d.ty]

----------------------------------------------------------------------------
(***************************************************************************)
(* Expressions (crate::ast::Expr), as far as eval_expr reads them.         *)
(***************************************************************************)
BoolConstant(b) == [kind |-> "BoolConstant", val |-> BoolV(b)]
IntegerConstant(n) == [kind |-> "IntegerConstant", val |-> IntV(n)]
StringConstant(s) == [kind |-> "StringConstant", val |-> StrV(s)]
DynamicConstant(d) == [kind |-> "DynamicConstant", val |-> d]
UnitExpr == [kind |-> "Unit", val |-> UNIT]

\* Expr::Variable((long index, namespace, hash_var, name), short index, pos)
\* an index of 0 stands for None; ns_index is Namespace::index()
Variable(name, short, long, ns, ns_index) ==
    [kind |-> "Variable", name |-> name, short |-> short, long |-> long,
     ns |-> ns, ns_index |-> ns_index,
     hash_var |-> <<IF ns = <<>> THEN <<>> ELSE Tail(ns), name>>]

Var(name) == Variable(name, 0, 0, <<>>, 0)
VarAt(name, i) == Variable(name, i, i, <<>>, 0)

\* Expr::FnCall(FnCallExpr { name, hashes, args, is_native_operator, .. })
FnCall(name, args, native) ==
    [kind |-> "FnCall", name |-> name, args |-> args, is_native_operator |-> native,
     hashes |-> <<name, Len(args)>>]

ArrayExpr(items) == [kind |-> "Array", items |-> items]
\* Expr::Map: x.0 the (key, value expression) pairs, x.1 the template of keys
MapExpr(keys, items) == [kind |-> "Map", keys |-> keys, items |-> items]
InterpolatedString(items) == [kind |-> "InterpolatedString", items |-> items]
And(l, r) == [kind |-> "And", lhs |-> l, rhs |-> r]
Or(l, r) == [kind |-> "Or", lhs |-> l, rhs |-> r]
Coalesce(l, r) == [kind |-> "Coalesce", lhs |-> l, rhs |-> r]
\* Expr::Custom: the first token is the key of the custom syntax
CustomExpr(key) == [kind |-> "Custom", key |-> key]
\* Expr::Stmt: a statement block; a statement is a declaration or an expression
Let(name, e) == [stmt |-> "let", name |-> name, expr |-> e]
ExprStmt(e) == [stmt |-> "expr", name |-> "", expr |-> e]
StmtExpr(block) == [kind |-> "Stmt", block |-> block]

SeqMap(Op(_), s) == [i \in 1..Len(s) |-> Op(s[i])]
StmtOf(st) == st.expr

\* the sub-expressions of a node, in source order
Children(e) ==
    CASE e.kind \in {"And", "Or", "Coalesce"} -> <<e.lhs, e.rhs>>
      [] e.kind \in {"Array", "Map", "InterpolatedString"} -> e.items
      [] e.kind = "FnCall" -> e.args
      [] e.kind = "Stmt" -> SeqMap(StmtOf, e.block)
      [] OTHER -> <<>>

RECURSIVE NodeAt(_, _)
NodeAt(e, path) ==
    IF path = <<>> THEN e ELSE NodeAt(Children(e)[Head(path)], Tail(path))

\* Expr::position / Namespace::position / Expr::start_position
NsPos(pos) == Append(pos, 0)
start_position(e, pos) ==
    IF e.kind = "Variable" /\ e.ns # <<>> THEN NsPos(pos) ELSE pos

----------------------------------------------------------------------------
(***************************************************************************)
(* Modules, imports and the scope.                                         *)
(***************************************************************************)
None == [some |-> FALSE]
Some(x) == [some |-> TRUE, get |-> x]

\* a module variable: hash is the pre-hashed identity (sub-path, name)
ModVar(path, name, v) == [hash |-> <<path, name>>, name |-> name, val |-> v]
Module(id, mvars) == [id |-> id, vars |-> mvars]

\* the index of the first / last element of a sequence satisfying a test
FirstIdx(s, Test(_)) ==
    LET hits == {i \in 1..Len(s) : Test(s[i])}
    IN IF hits = {} THEN 0 ELSE CHOOSE i \in hits : \A j \in hits : i <= j
LastIdx(s, Test(_)) ==
    LET hits == {i \in 1..Len(s) : Test(s[i])}
    IN IF hits = {} THEN 0 ELSE CHOOSE i \in hits : \A j \in hits : i >= j

\* Module::get_var: a module-level variable by name
get_var(m, name) ==
    LET Hit(v) == v.hash = <<<<>>, name>>
        i == FirstIdx(m.vars, Hit)
    IN IF i = 0 THEN None ELSE Some(m.vars[i].val)

\* Module::get_qualified_var: a variable by its pre-hashed identity
get_qualified_var(m, hash) ==
    LET Hit(v) == v.hash = hash
        i == FirstIdx(m.vars, Hit)
    IN IF i = 0 THEN None ELSE Some(m.vars[i].val)

\* GlobalRuntimeState::num_imports / get_shared_import / find_import
num_imports(g) == Len(g.imports)
get_shared_import(g, offset) ==
    IF offset >= 0 /\ offset < Len(g.imports) THEN Some(g.imports[offset + 1].module) ELSE None
find_import(g, name) ==
    LET Hit(im) == im.name = name
        i == LastIdx(g.imports, Hit)
    IN IF i = 0 THEN None ELSE Some(i - 1)

\* Engine::global_sub_modules.get(root)
global_sub_module(e, root) ==
    LET Hit(im) == im.name = root
        i == FirstIdx(e.global_sub_modules, Hit)
    IN IF i = 0 THEN None ELSE Some(e.global_sub_modules[i].module)

\* Scope::len / get_index (the highest index with the name) / get_mut_by_index
scope_len(s) == Len(s)
get_index(s, name) ==
    LET Hit(en) == en.name = name
        i == LastIdx(s, Hit)
    IN IF i = 0 THEN None ELSE Some(i - 1)
get_mut_by_index(s, index) == s[index + 1].value

----------------------------------------------------------------------------
(***************************************************************************)
(* Variable resolution.                                                    *)
(*                                                                         *)
(* A resolution yields [res, via, hints]: res is the Result handed back    *)
(* (Ok carries the value and the position); via names the return statement *)
(* that produced it and hints lists the calls made to the variable         *)
(* resolver callback, both kept as history for the properties.             *)
(***************************************************************************)
NoThis == [some |-> FALSE]
OkAt(v, pos) == [ok |-> TRUE, val |-> v, pos |-> pos]
Resolution(res, via, hints) == [res |-> res, via |-> via, hints |-> hints]

\* the host's variable resolver callbacks of the model: Ok(Some), Ok(None) or Err
resolve_var(f, name, index) ==
    CASE f = "value_x" ->
            IF name = "x" THEN [tag |-> "Some", val |-> IntV(70)] ELSE [tag |-> "None"]
      [] f = "hinted" ->
            IF index > 0 THEN [tag |-> "Some", val |-> IntV(80 + index)] ELSE [tag |-> "None"]
      [] f = "error_x" ->
            IF name = "x" THEN [tag |-> "Err", err |-> Err("ErrorRuntime", <<"resolver">>, NoPos)]
            ELSE [tag |-> "None"]
      [] OTHER -> [tag |-> "None"]

\* expr.rs 36-40: the import index that may be used directly
import_index(g, ns_index) == IF g.always_search_scope THEN 0 ELSE ns_index

\* Engine::search_imports
search_imports(e, g, namespace, ns_index) ==
    LET root == namespace[1]
        index == import_index(g, ns_index)
        direct == IF index > 0 THEN get_shared_import(g, num_imports(g) - index) ELSE None
        offset == find_import(g, root)
    IN IF direct.some THEN direct
       ELSE IF offset.some THEN get_shared_import(g, offset.get)
       ELSE global_sub_module(e, root)

\* expr.rs 153-177: the arm of the match that the variable expression takes
var_arm_without_fn_ptr(g, l, expr) ==
    IF expr.short = 0 /\ expr.long = 0 /\ expr.name = KEYWORD_THIS THEN "this"
    ELSE IF g.always_search_scope THEN "always_search"
    ELSE IF expr.short > 0 THEN "short_index"
    ELSE "long_index"
var_arm_ignoring_mode(g, l, expr) ==
    IF expr.short = 0 /\ expr.long = 0 /\ expr.name = KEYWORD_THIS THEN "this"
    ELSE IF expr.short > 0 THEN "short_index"
    ELSE IF expr.name \in l THEN "fn_ptr"
    ELSE "long_index"
var_arm(g, l, expr) ==
    IF expr.short = 0 /\ expr.long = 0 /\ expr.name = KEYWORD_THIS THEN "this"
    ELSE IF g.always_search_scope THEN "always_search"
    ELSE IF expr.short > 0 THEN "short_index"
    ELSE IF expr.name \in l THEN "fn_ptr"
    ELSE "long_index"

\* expr.rs 161-175: the index bound by the match
var_index(g, l, expr) ==
    CASE var_arm(g, l, expr) = "short_index" -> expr.short
      [] var_arm(g, l, expr) = "long_index" -> expr.long
      [] OTHER -> 0

\* expr.rs 180: whether the variable resolver is called
resolver_consulted_without_index(e, index) == e.resolve_var # "absent" /\ index = 0
resolver_consulted(e, index) == e.resolve_var # "absent"

\* expr.rs 193-214: lookup by index or by name, then in the global modules
scope_lookup_modules_first(e, sc, var_name, index, var_pos, hints) ==
    LET found == get_index(sc, var_name)
        Defines(m) == get_var(m, var_name).some
        mi == FirstIdx(e.global_modules, Defines)
    IN IF index > 0 /\ index <= scope_len(sc)
       THEN Resolution(OkAt(get_mut_by_index(sc, scope_len(sc) - index), var_pos), "index", hints)
       ELSE IF mi > 0
       THEN Resolution(OkAt(get_var(e.global_modules[mi], var_name).get, var_pos),
                       "global_module", hints)
       ELSE IF found.some
       THEN Resolution(OkAt(get_mut_by_index(sc, found.get), var_pos), "scope", hints)
       ELSE Resolution(Err("ErrorVariableNotFound", <<var_name>>, var_pos), "not_found", hints)
scope_lookup(e, sc, var_name, index, var_pos, hints) ==
    IF index > 0
    THEN IF index > scope_len(sc)
         THEN Resolution(Err("panic", <<"index out of bounds">>, var_pos), "index", hints)
         ELSE Resolution(OkAt(get_mut_by_index(sc, scope_len(sc) - index), var_pos),
                         "index", hints)
    ELSE LET found == get_index(sc, var_name)
             Defines(m) == get_var(m, var_name).some
             mi == FirstIdx(e.global_modules, Defines)
         IN IF found.some
            THEN Resolution(OkAt(get_mut_by_index(sc, found.get), var_pos), "scope", hints)
            ELSE IF mi > 0
            THEN Resolution(OkAt(get_var(e.global_modules[mi], var_name).get, var_pos),
                            "global_module", hints)
            ELSE Resolution(Err("ErrorVariableNotFound", <<var_name>>, var_pos),
                            "not_found", hints)

\* Engine::search_scope_only
search_scope_only(e, g, l, tp, sc, expr, pos) ==
    CASE var_arm(g, l, expr) = "this" ->
            Resolution(IF tp.some THEN OkAt(tp.get, pos)
                       ELSE Err("ErrorUnboundThis", <<>>, pos), "this", <<>>)
      [] var_arm(g, l, expr) = "fn_ptr" ->
            Resolution(OkAt(FnPtr(expr.name), pos), "fn_ptr", <<>>)
      [] OTHER ->
            LET index == var_index(g, l, expr)
                var_pos == IF var_arm(g, l, expr) = "always_search"
                           THEN start_position(expr, pos) ELSE pos
                var_name == expr.name
                consulted == resolver_consulted(e, index)
                hints == IF consulted THEN <<[name |-> var_name, index |-> index]>> ELSE <<>>
                answer == IF consulted THEN resolve_var(e.resolve_var, var_name, index)
                          ELSE [tag |-> "None"]
            IN CASE answer.tag = "Some" ->
                      Resolution(OkAt(set_access_mode(answer.val, "ReadOnly"), var_pos),
                                 "resolver", hints)
                 [] answer.tag = "Err" ->
                      Resolution(fill_position(answer.err, var_pos), "resolver", hints)
                 [] OTHER -> scope_lookup(e, sc, var_name, index, var_pos, hints)

\* expr.rs 98: module variables are constant
mark_module_variable_skipped(target) == target
mark_module_variable(target) == set_access_mode(target, "ReadOnly")

\* expr.rs 106: the namespace is the single segment `global`
is_global_namespace_by_root(ns) == ns[1] = KEYWORD_GLOBAL
is_global_namespace(ns) == Len(ns) = 1 /\ ns[1] = KEYWORD_GLOBAL

\* Engine::search_namespace
search_namespace(e, g, l, tp, sc, expr, pos) ==
    IF expr.short > 0 THEN search_scope_only(e, g, l, tp, sc, expr, pos)
    ELSE IF expr.ns = <<>> THEN search_scope_only(e, g, l, tp, sc, expr, pos)
    ELSE
    LET module == search_imports(e, g, expr.ns, expr.ns_index)
        qualified == expr.ns \o <<expr.name>>
    IN IF module.some
       THEN LET target == get_qualified_var(module.get, expr.hash_var)
            IN IF target.some
               THEN Resolution(OkAt(mark_module_variable(target.get), pos), "module", <<>>)
               ELSE Resolution(Err("ErrorVariableNotFound", qualified, NsPos(pos)),
                               "module", <<>>)
       ELSE IF is_global_namespace(expr.ns)
       THEN LET Hit(c) == c.name = expr.name
                ci == IF g.constants.some THEN FirstIdx(g.constants.get, Hit) ELSE 0
            IN IF ci > 0
               THEN Resolution(OkAt(set_access_mode(g.constants.get[ci].value, "ReadOnly"), pos),
                               "constants", <<>>)
               ELSE Resolution(Err("ErrorVariableNotFound", qualified, NsPos(pos)),
                               "constants", <<>>)
       ELSE Resolution(Err("ErrorModuleNotFound", expr.ns, NsPos(pos)), "no_module", <<>>)

----------------------------------------------------------------------------
(***************************************************************************)
(* Initial configurations shared by the specifications.                    *)
(***************************************************************************)
DefaultEngine ==
    [fast_operators |-> TRUE, max_operations |-> 0, resolve_var |-> "absent",
     global_modules |-> <<>>, global_sub_modules |-> <<>>, custom_syntax |-> {},
     registry |-> {}, max_array_size |-> 0, debugger |-> FALSE]
DefaultGlobal ==
    [always_search_scope |-> FALSE, imports |-> <<>>, constants |-> None,
     num_operations |-> 0, debugger |-> "Continue"]
NoRet == [some |-> FALSE]
NoOut == [op |-> "none"]
EmptyCache == <<>>

(***************************************************************************)
(* Variable resolution on its own: the configuration is drawn at the start *)
(* and each step resolves one variable expression at the root position.    *)
(***************************************************************************)
Names == {"x", "y"}
\* scopes of up to MaxScope entries; the entry at index i holds the value i
ScopeOf(names) == [i \in 1..Len(names) |-> [name |-> names[i], value |-> IntV(i - 1)]]
NameSeqs == UNION {[1..n -> Names] : n \in 0..MaxScope}
Scopes == {ScopeOf(ns) : ns \in NameSeqs}

\* the variable y of module A is stored as a constant, the others read-write
ModA ==
    Module("A", <<ModVar(<<>>, "x", IntV(31)), ModVar(<<"s">>, "x", IntV(32)),
                  ModVar(<<>>, "y", set_access_mode(IntV(35), "ReadOnly"))>>)
ModB == Module("B", <<ModVar(<<>>, "y", IntV(33)), ModVar(<<>>, "x", IntV(34))>>)
Imp(name, m) == [name |-> name, module |-> m]

GlobalModuleLists == {<<>>, <<ModA>>, <<ModB, ModA>>}
ImportStacks ==
    {<<>>, <<Imp("m", ModA)>>, <<Imp("m", ModA), Imp("n", ModB)>>,
     <<Imp("m", ModB), Imp("m", ModA)>>, <<Imp("global", ModA)>>}
SubModuleLists == {<<>>, <<Imp("m", ModB)>>, <<Imp("global", ModB)>>}
ConstantTables == {None, Some(<<>>), Some(<<[name |-> "x", value |-> IntV(21)]>>)}
Resolvers == {"absent", "unhandled", "value_x", "hinted", "error_x"}

InitRest ==
    /\ caches = EmptyCache
    /\ ast = UnitExpr
    /\ stack = <<>>
    /\ ret = NoRet
    /\ trace = <<>>
    /\ call = 0
    /\ out = NoOut

InitVarUnqualified ==
    /\ \E r \in Resolvers, gm \in GlobalModuleLists :
          engine = [DefaultEngine EXCEPT !.resolve_var = r, !.global_modules = gm]
    /\ \E a \in BOOLEAN : global = [DefaultGlobal EXCEPT !.always_search_scope = a]
    /\ lib \in {{}, {"x"}}
    /\ this_ptr \in {NoThis, Some(IntV(9))}
    /\ scope \in Scopes
    /\ InitRest

InitVarQualified ==
    /\ \E sm \in SubModuleLists : engine = [DefaultEngine EXCEPT !.global_sub_modules = sm]
    /\ \E a \in BOOLEAN, im \in ImportStacks, c \in ConstantTables :
          global = [DefaultGlobal EXCEPT !.always_search_scope = a, !.imports = im,
                                         !.constants = c]
    /\ lib = {}
    /\ this_ptr = NoThis
    /\ scope \in {<<>>, ScopeOf(<<"x">>)}
    /\ InitRest

InitVar == InitVarUnqualified \/ InitVarQualified

\* unqualified references: no index, the same index in both slots, or a long index only
UnqualifiedRefs ==
    {Variable(n, s, i, <<>>, 0) :
        n \in Names \cup {KEYWORD_THIS}, s \in 0..MaxScope, i \in 0..MaxScope}
Namespaces == {<<"m">>, <<"n">>, <<"global">>, <<"global", "s">>, <<"m", "s">>}
QualifiedRefs ==
    {Variable(n, 0, 0, ns, i) : n \in Names, ns \in Namespaces, i \in 0..2}

\* the references the parser can hand over for the current scope and imports
WellFormedRef(expr) ==
    /\ expr.short <= scope_len(scope)
    /\ expr.long <= scope_len(scope)
    /\ expr.short > 0 => expr.long = expr.short
    /\ expr.ns_index <= num_imports(global)

Observe(expr, pos) ==
    [op |-> "search_namespace", expr |-> expr, pos |-> pos,
     r |-> search_namespace(engine, global, lib, this_ptr, scope, expr, pos)]

SearchUnqualified ==
    /\ \E expr \in UnqualifiedRefs :
          /\ WellFormedRef(expr)
          /\ out' = Observe(expr, <<>>)
    /\ UNCHANGED <<engine, global, lib, this_ptr, scope, caches, ast, stack, ret, trace, call>>

SearchQualified ==
    /\ \E expr \in QualifiedRefs :
          /\ WellFormedRef(expr)
          /\ out' = Observe(expr, <<>>)
    /\ UNCHANGED <<engine, global, lib, this_ptr, scope, caches, ast, stack, ret, trace, call>>

NextVar == SearchUnqualified \/ SearchQualified

SpecVar == InitVar /\ [][NextVar]_vars

----------------------------------------------------------------------------
(***************************************************************************)
(* The operator dispatch table (func/builtin.rs), for the arithmetic and   *)
(* bitwise operators, "contains" and the six comparisons, in the default   *)
(* build (checked arithmetic, floats on, decimals off).  INT is modelled   *)
(* as a signed integer of IntBits bits.  Operand types: i64, f64, bool, string, char, blob,  *)
(* map, array, (), the two range types, host types T and U and the host    *)
(* numeric types u8 and u16.  A string's payload is the sequence of its    *)
(* characters, a char's payload is the character, a blob's a sequence of   *)
(* bytes, a range's the pair of its ends.  A cell is named by              *)
(* <<op, type1, type2>>.                                                   *)
(***************************************************************************)
OP_CONTAINS == "contains"
Equalities == {"==", "!="}
CheckedOps == {"+", "-", "*", "/", "%", "**", ">>", "<<"}
BitOps == {"&", "|", "^"}
FloatOps == {"+", "-", "*", "/", "%", "**"}
Comparisons == {"==", "!=", ">", ">=", "<", "<="}

\* builtin.rs 24-54: the numeric types
is_numeric_never(t) == FALSE
is_numeric(t) == t \in {"u8", "u16", "i64", "f64"}

\* builtin.rs 536-543 (and 402-404, 410-412, 526-530): the default comparison of
\* operands of different types
default_comparison_equal(op) == op = "=="
default_comparison(op) == op = "!="

\* builtin.rs 119-252: the operators of the same-type cells; NoArm when the type
\* has none and the search goes on
NoArm == {"no arm"}
same_type_ops(t) ==
    CASE t = "i64" -> CheckedOps \cup BitOps \cup Comparisons
      [] t = "bool" -> BitOps \cup Comparisons
      [] t = "string" -> {"+", "-", OP_CONTAINS} \cup Comparisons
      [] t = "char" -> {"+"} \cup Comparisons
      [] t = "blob" -> {"+"} \cup Equalities
      [] t = "()" -> Comparisons
      [] OTHER -> NoArm

\* builtin.rs 424-432: blob op int has `contains` only
blob_int_ops_with_default == {OP_CONTAINS} \cup Comparisons
blob_int_ops == {OP_CONTAINS}

\* builtin.rs 254-516: the operators of the cells listed for a pair of types
mixed_ops(type1, type2) ==
    CASE <<type1, type2>> \in {<<"f64", "f64">>, <<"f64", "i64">>, <<"i64", "f64">>} ->
            FloatOps \cup Comparisons
      [] <<type1, type2>> = <<"char", "string">> -> {"+"} \cup Comparisons
      [] <<type1, type2>> = <<"string", "char">> -> {"+", "-", OP_CONTAINS} \cup Comparisons
      [] <<type1, type2>> \in {<<"()", "string">>, <<"string", "()">>} ->
            {"+"} \cup Comparisons
      [] <<type1, type2>> = <<"blob", "i64">> -> blob_int_ops
      [] <<type1, type2>> = <<"blob", "char">> -> {"+"}
      [] <<type1, type2>> = <<"map", "string">> -> {OP_CONTAINS}
      [] <<type1, type2>> \in {<<"range", "range_incl">>, <<"range_incl", "range">>} ->
            Equalities
      [] type1 \in {"range", "range_incl"} /\ type2 = "i64" -> {OP_CONTAINS}
      [] type1 \in {"range", "range_incl"} /\ type2 = type1 -> Equalities
      [] OTHER -> NoArm

\* builtin.rs 518-534: one of the operands is a custom type
variant_ops(type1, type2) ==
    IF is_numeric(type1) /\ is_numeric(type2) THEN {}
    ELSE IF type1 # type2 THEN Comparisons
    ELSE {}

\* get_builtin_binary_op_fn: the cell for (op, x, y), or None
get_builtin_binary_op_fn(op, x, y) ==
    LET type1 == type_id(x)
        type2 == type_id(y)
        ops == IF type1 = type2 /\ same_type_ops(type1) # NoArm THEN same_type_ops(type1)
               ELSE IF mixed_ops(type1, type2) # NoArm THEN mixed_ops(type1, type2)
               ELSE IF is_variant(x) \/ is_variant(y) THEN variant_ops(type1, type2)
               ELSE IF type2 # type1 THEN Comparisons
               ELSE {}
    IN IF op \in ops THEN Some(<<op, type1, type2>>) ELSE None

\* whether sequence t occurs in sequence s (str::contains)
Contains(s, t) == \E i \in 0..(Len(s) - Len(t)) : SubSeq(s, i + 1, i + Len(t)) = t

\* the characters in the order of their code points; NUL is 0
Chars ==
    <<"0", "1", "2", "3", "4", "5", "6", "7", "8", "9",
      "a", "b", "c", "e", "i", "l", "n", "o", "p", "r", "t">>
Code(ch) == CHOOSE i \in 1..Len(Chars) : Chars[i] = ch
Codes(s) == [i \in 1..Len(s) |-> Code(s[i])]
NUL == 0

\* Ord of sequences (arrays, strings): -1, 0 or 1 as a is less than, equal to or
\* greater than b in lexicographic order
LexCmp(a, b) ==
    LET n == IF Len(a) < Len(b) THEN Len(a) ELSE Len(b)
        diff == {i \in 1..n : a[i] # b[i]}
        first == CHOOSE i \in diff : \A j \in diff : i <= j
    IN IF diff # {} THEN (IF a[first] < b[first] THEN -1 ELSE 1)
       ELSE IF Len(a) < Len(b) THEN -1
       ELSE IF Len(a) > Len(b) THEN 1
       ELSE 0

\* the comparison operator applied to an ordering
Holds(op, c) ==
    CASE op = "==" -> c = 0
      [] op = "!=" -> c # 0
      [] op = ">" -> c = 1
      [] op = ">=" -> c >= 0
      [] op = "<" -> c = -1
      [] op = "<=" -> c <= 0

\* builtin.rs 339-346, 365-372: get_s1s2, the two arrays that are compared
get_s1s2_first_only(type1, x, y) ==
    IF type1 = "char"
    THEN <<<<Code(x.v)>>, <<IF Len(y.v) >= 1 THEN Code(y.v[1]) ELSE NUL>>>>
    ELSE <<<<IF Len(x.v) >= 1 THEN Code(x.v[1]) ELSE NUL>>, <<Code(y.v)>>>>
get_s1s2(type1, x, y) ==
    LET Two(s) == <<IF Len(s) >= 1 THEN Code(s[1]) ELSE NUL,
                    IF Len(s) >= 2 THEN Code(s[2]) ELSE NUL>>
    IN IF type1 = "char"
       THEN <<<<Code(x.v), NUL>>, Two(y.v)>>
       ELSE <<Two(x.v), <<Code(y.v), NUL>>>>

\* builtin.rs 194-197: what the ordering of two strings compares
string_order_key_first_two(s) == Codes(SubSeq(s, 1, IF Len(s) < 2 THEN Len(s) ELSE 2))
string_order_key(s) == Codes(s)

\* the ordering of two payloads of the same type
Ordering(t, a, b) ==
    CASE t = "string" -> LexCmp(string_order_key(a), string_order_key(b))
      [] t = "char" -> LexCmp(<<Code(a)>>, <<Code(b)>>)
      [] t = "bool" -> LexCmp(<<IF a THEN 1 ELSE 0>>, <<IF b THEN 1 ELSE 0>>)
      [] OTHER -> LexCmp(<<a>>, <<b>>)

\* the range of INT
MinInt == -(2 ^ (IntBits - 1))
MaxInt == (2 ^ (IntBits - 1)) - 1
Abs(n) == IF n < 0 THEN -n ELSE n

\* x to the power y (y >= 0), computed exactly until it leaves the range of INT
\* (an exponent above IntBits leaves the range as exponent IntBits does)
RECURSIVE Power(_, _)
Power(x, y) ==
    IF y = 0 THEN 1
    ELSE IF x \in {0, 1} THEN x
    ELSE IF x = -1 THEN (IF y % 2 = 0 THEN 1 ELSE -1)
    ELSE IF y > IntBits THEN Power(x, IntBits)
    ELSE LET p == Power(x, y - 1)
         IN IF Abs(p) > MaxInt + 1 THEN p ELSE p * x

\* division and remainder that truncate toward zero
Quotient(x, y) ==
    (IF (x < 0) = (y < 0) THEN 1 ELSE -1) * (Abs(x) \div Abs(y))
Remainder(x, y) == x - (y * Quotient(x, y))

\* packages::arithmetic (checked build): the exact result when it is an integer in
\* the range of INT, and the arithmetic error on overflow, on division or modulo
\* by zero and on a negative exponent or shift count
checked_wrapping(op, x, y) ==
    Ok(IntV((((x + y) - MinInt) % (2 ^ IntBits)) + MinInt))
checked(op, x, y) ==
    LET failure == Err("ErrorArithmetic", <<op>>, NoPos)
        exact == CASE op = "+" -> x + y
                   [] op = "-" -> x - y
                   [] op = "*" -> x * y
                   [] op = "/" -> Quotient(x, y)
                   [] op = "%" -> Remainder(x, y)
                   [] op = "**" -> Power(x, y)
                   [] op = "<<" -> x * Power(2, y)
                   [] op = ">>" -> x \div Power(2, y)
    IN IF op \in {"/", "%"} /\ y = 0 THEN failure
       ELSE IF op \in {"**", "<<", ">>"} /\ y < 0 THEN failure
       ELSE IF exact < MinInt \/ exact > MaxInt THEN failure
       ELSE Ok(IntV(exact))

\* the bitwise operators on the two's complement representation
RECURSIVE Bitwise(_, _, _, _)
Bitwise(op, a, b, n) ==
    IF n = 0 THEN 0
    ELSE LET p == a % 2
             q == b % 2
             bit == CASE op = "&" -> IF p = 1 /\ q = 1 THEN 1 ELSE 0
                      [] op = "|" -> IF p = 1 \/ q = 1 THEN 1 ELSE 0
                      [] op = "^" -> IF p # q THEN 1 ELSE 0
         IN bit + (2 * Bitwise(op, a \div 2, b \div 2, n - 1))
Unsigned(x) == IF x < 0 THEN x + (2 ^ IntBits) ELSE x
Signed(u) == IF u > MaxInt THEN u - (2 ^ IntBits) ELSE u
bit_op(op, x, y) == Signed(Bitwise(op, Unsigned(x), Unsigned(y), IntBits))
bool_op(op, x, y) ==
    CASE op = "&" -> x /\ y
      [] op = "|" -> x \/ y
      [] op = "^" -> x # y

\* ImmutableString - ImmutableString: every occurrence of t is removed from s
RECURSIVE Remove(_, _)
Remove(s, t) ==
    IF t = <<>> \/ Len(s) < Len(t) THEN s
    ELSE IF SubSeq(s, 1, Len(t)) = t THEN Remove(SubSeq(s, Len(t) + 1, Len(s)), t)
    ELSE <<s[1]>> \o Remove(Tail(s), t)

\* the cells whose implementation the model carries
Implemented(cell) ==
    /\ cell[1] \in {"*", "/", "%", "**"} => cell[2] = "i64" /\ cell[3] = "i64"

\* the implementation held by a cell, applied to the operands
call_builtin(cell, x, y) ==
    LET op == cell[1]
        type1 == cell[2]
        type2 == cell[3]
    IN IF type1 # type2
       THEN CASE {type1, type2} = {"f64", "i64"} ->
                   IF op = "+" THEN Ok(Dyn("f64", x.v + y.v))
                   ELSE IF op = "-" THEN Ok(Dyn("f64", x.v - y.v))
                   ELSE Ok(BoolV(Holds(op, LexCmp(<<x.v>>, <<y.v>>))))
              [] {type1, type2} = {"char", "string"} ->
                   IF op = "+"
                   THEN Ok(StrV(IF type1 = "char" THEN <<x.v>> \o y.v ELSE Append(x.v, y.v)))
                   ELSE IF op = "-" THEN Ok(StrV(Remove(x.v, <<y.v>>)))
                   ELSE IF op = OP_CONTAINS
                   THEN Ok(BoolV(\E i \in 1..Len(x.v) : x.v[i] = y.v))
                   ELSE Ok(BoolV(Holds(op, LexCmp(get_s1s2(type1, x, y)[1],
                                                  get_s1s2(type1, x, y)[2]))))
              [] op = OP_CONTAINS /\ type1 = "blob" ->
                   Ok(BoolV(\E i \in 1..Len(x.v) : x.v[i] = y.v % 256))
              [] op = OP_CONTAINS /\ type1 = "map" ->
                   Ok(BoolV(\E i \in 1..Len(x.v) : <<x.v[i].key>> = y.v))
              [] op = OP_CONTAINS /\ type1 = "range" ->
                   Ok(BoolV(x.v[1] <= y.v /\ y.v < x.v[2]))
              [] op = OP_CONTAINS /\ type1 = "range_incl" ->
                   Ok(BoolV(x.v[1] <= y.v /\ y.v <= x.v[2]))
              [] op = "+" /\ type1 = "blob" -> Ok(Dyn("blob", Append(x.v, Code(y.v))))
              [] op = "+" -> Ok(IF type1 = "()" THEN y ELSE x)
              [] OTHER -> Ok(BoolV(default_comparison(op)))
       ELSE IF type1 = "()"
       THEN Ok(BoolV(op = "=="))
       ELSE CASE type1 = "i64" /\ op \in CheckedOps -> checked(op, x.v, y.v)
              [] type1 = "i64" /\ op \in BitOps -> Ok(IntV(bit_op(op, x.v, y.v)))
              [] type1 = "bool" /\ op \in BitOps -> Ok(BoolV(bool_op(op, x.v, y.v)))
              [] op = "+" /\ type1 \in {"string", "blob"} -> Ok(Dyn(type1, x.v \o y.v))
              [] op = "-" /\ type1 = "string" -> Ok(StrV(Remove(x.v, y.v)))
              [] op = "+" /\ type1 = "char" -> Ok(StrV(<<x.v, y.v>>))
              [] op = "+" -> Ok(Dyn(type1, x.v + y.v))
              [] op = "-" -> Ok(Dyn(type1, x.v - y.v))
              [] op = "==" -> Ok(BoolV(x.v = y.v))
              [] op = "!=" -> Ok(BoolV(x.v # y.v))
              [] op = OP_CONTAINS -> Ok(BoolV(Contains(x.v, y.v)))
              [] OTHER -> Ok(BoolV(Holds(op, Ordering(type1, x.v, y.v))))

\* builtin.rs 65-116 (impl_op): a cell is a closure `|_, args|` that is handed
\* the call context and the operands; it yields the result and leaves the operands
apply_cell_using_context(context, cell, args) ==
    [res |-> IF context.num_operations > 0 THEN Ok(UNIT)
             ELSE call_builtin(cell, args[1], args[2]),
     args |-> <<UNIT, args[2]>>]
apply_cell(context, cell, args) ==
    [res |-> call_builtin(cell, args[1], args[2]), args |-> args]

\* builtin.rs 601-690: the op-assignment cells for operands of one type
AssignTokens ==
    {"+=", "-=", "*=", "/=", "%=", "**=", ">>=", "<<=", "&=", "|=", "^="}
same_type_assign_ops_with_xor(t) ==
    CASE t = "i64" -> AssignTokens
      [] t = "bool" -> {"&=", "|=", "^="}
      [] t = "char" -> {"+="}
      [] t = "string" -> {"+=", "-="}
      [] t = "blob" -> {"+="}
      [] OTHER -> NoArm
same_type_assign_ops(t) ==
    CASE t = "i64" -> AssignTokens
      [] t = "bool" -> {"&=", "|="}
      [] t = "char" -> {"+="}
      [] t = "string" -> {"+=", "-="}
      [] t = "blob" -> {"+="}
      [] OTHER -> NoArm

\* builtin.rs 692-847: the op-assignment cells for the other pairs of types
mixed_assign_ops(type1, type2) ==
    CASE <<type1, type2>> \in {<<"f64", "f64">>, <<"f64", "i64">>} ->
            {"+=", "-=", "*=", "/=", "%=", "**="}
      [] <<type1, type2>> = <<"string", "char">> -> {"+=", "-="}
      [] <<type1, type2>> = <<"char", "string">> -> {"+="}
      [] type1 = "array" -> {"+="}
      [] <<type1, type2>> \in {<<"blob", "i64">>, <<"blob", "char">>, <<"blob", "string">>} ->
            {"+="}
      [] OTHER -> {}

\* get_builtin_op_assignment_fn: the cell for (op, x, y), or None
get_builtin_op_assignment_fn(op, x, y) ==
    LET type1 == type_id(x)
        type2 == type_id(y)
        ops == IF type1 = type2 /\ same_type_assign_ops(type1) # NoArm
               THEN same_type_assign_ops(type1)
               ELSE mixed_assign_ops(type1, type2)
    IN IF op \in ops THEN Some(<<op, type1, type2>>) ELSE None

\* the operator that an op-assignment token applies
Binary(token) ==
    CASE token = "+=" -> "+"
      [] token = "-=" -> "-"
      [] token = "*=" -> "*"
      [] token = "/=" -> "/"
      [] token = "%=" -> "%"
      [] token = "**=" -> "**"
      [] token = ">>=" -> ">>"
      [] token = "<<=" -> "<<"
      [] token = "&=" -> "&"
      [] token = "|=" -> "|"
      [] token = "^=" -> "^"

\* the cells whose implementation the model carries
AssignImplemented(cell) ==
    cell[1] \in {"*=", "/=", "%=", "**="} => cell[2] = "i64"

\* builtin.rs 559-597 (impl_op) and the closures of 647-845: the value a cell
\* computes for the first operand, or the error of a checked function
assigned(cell, x, y) ==
    LET op == Binary(cell[1])
        type1 == cell[2]
        type2 == cell[3]
    IN CASE type1 = "i64" /\ op \in CheckedOps -> checked(op, x.v, y.v)
         [] type1 = "i64" -> Ok(IntV(bit_op(op, x.v, y.v)))
         [] type1 = "bool" -> Ok(BoolV(bool_op(op, x.v, y.v)))
         [] type1 = "f64" -> Ok(Dyn("f64", IF op = "+" THEN x.v + y.v ELSE x.v - y.v))
         [] type1 = "char" /\ type2 = "char" -> Ok(StrV(<<x.v, y.v>>))
         [] type1 = "char" -> Ok(StrV(<<x.v>> \o y.v))
         [] type1 = "string" /\ type2 = "string" ->
              Ok(StrV(IF op = "+" THEN x.v \o y.v ELSE Remove(x.v, y.v)))
         [] type1 = "string" ->
              Ok(StrV(IF op = "+" THEN Append(x.v, y.v) ELSE Remove(x.v, <<y.v>>)))
         [] type1 = "array" /\ type2 = "array" -> Ok(Arr(x.v \o y.v))
         [] type1 = "array" -> Ok(Arr(Append(x.v, y)))
         [] type1 = "blob" /\ type2 = "blob" -> Ok(Dyn("blob", x.v \o y.v))
         [] type1 = "blob" /\ type2 = "i64" -> Ok(Dyn("blob", Append(x.v, y.v % 256)))
         [] type1 = "blob" /\ type2 = "char" -> Ok(Dyn("blob", Append(x.v, Code(y.v))))
         [] type1 = "blob" /\ type2 = "string" -> Ok(Dyn("blob", x.v \o Codes(y.v)))

\* builtin.rs 663, 669, 683, 789, 798, 838: the cells that move the second operand
\* out of its slot (std::mem::take)
takes_second_never(cell) == FALSE
takes_second(cell) ==
    \/ cell[2] = "array"
    \/ cell[2] = "string" /\ cell[3] = "string"
    \/ cell[2] = "blob" /\ cell[3] \in {"blob", "string"}

\* an op-assignment cell invoked on the operands: the error of a checked function
\* is returned before anything is written, otherwise the value is stored in the first
\* operand (the whole Dynamic is replaced when a char becomes a string) and a
\* taken second operand leaves the default value, (), in its slot
apply_op_assignment(context, cell, args) ==
    LET r == assigned(cell, args[1], args[2])
    IN IF ~r.ok THEN [res |-> r, args |-> args]
       ELSE [res |-> Ok(UNIT),
             args |-> <<IF cell[2] = "char" THEN r.val
                        ELSE [args[1] EXCEPT !.v = r.val.v],
                        IF takes_second(cell) THEN UNIT ELSE args[2]>>]

----------------------------------------------------------------------------
(***************************************************************************)
(* Function calls.  The function registry, exec_fn_call and                *)
(* check_return_value are collaborators; they follow their contracts:      *)
(* resolution goes through the cache keyed by the combined hash, a miss    *)
(* consults the registry and the outcome (a callable or the negative       *)
(* marker) is cached.  A registry entry is [name, types, fn], fn naming    *)
(* the behaviour of the registered function.                               *)
(***************************************************************************)
Types(args) == [i \in 1..Len(args) |-> type_id(args[i])]

\* the standard package's functions: the same results as the operators
std_fn(name, args) ==
    IF Len(args) = 1
    THEN IF name = "!" /\ args[1].ty = "bool" THEN Ok(BoolV(~args[1].v))
         ELSE Err("ErrorRuntime", <<"std", name>>, NoPos)
    ELSE LET x == args[1]
             y == args[2]
         IN IF x.ty # y.ty
            THEN IF name = "+" THEN Ok(IF x.ty = "()" THEN y ELSE x)
                 ELSE Ok(BoolV(name = "!="))
            ELSE CASE name = "+" /\ x.ty = "i64" -> Ok(IntV(x.v + y.v))
                   [] name = "+" /\ x.ty = "string" -> Ok(StrV(x.v \o y.v))
                   [] name = "==" -> Ok(BoolV(x.v = y.v))
                   [] name = "!=" -> Ok(BoolV(x.v # y.v))
                   [] name = OP_CONTAINS -> Ok(BoolV(Contains(x.v, y.v)))
                   [] OTHER -> Err("ErrorRuntime", <<"std", name>>, NoPos)

\* the functions a host registers in the model
call_host(fn, name, args) ==
    CASE fn = "std" -> std_fn(name, args)
      [] fn = "answer" -> Ok(IntV(42))
      [] fn = "throw" -> Err("ErrorRuntime", <<"host", name>>, NoPos)

\* a cached callable: a cell of the dispatch table or a registered function
Builtin(cell) == [builtin |-> TRUE, cell |-> cell]
Registered(fn) == [builtin |-> FALSE, fn |-> fn]
call_fn(f, name, args) ==
    IF f.builtin THEN call_builtin(f.cell, args[1], args[2]) ELSE call_host(f.fn, name, args)

\* calc_data_sizes, has_data_size_limit, raise_err_if_over_data_size_limit:
\* the array component of the data sizes against Engine::max_array_size
RECURSIVE SumSizes(_, _)
calc_data_sizes(d) ==
    CASE d.ty = "array" -> Len(d.v) + SumSizes(d.v, Len(d.v))
      [] d.ty = "map" -> SumSizes([i \in 1..Len(d.v) |-> d.v[i].value], Len(d.v))
      [] OTHER -> 0
SumSizes(vals, n) == IF n = 0 THEN 0 ELSE calc_data_sizes(vals[n]) + SumSizes(vals, n - 1)

has_data_size_limit(e) == e.max_array_size > 0
raise_err_if_over_data_size_limit(e, sizes, pos) ==
    IF e.max_array_size > 0 /\ sizes > e.max_array_size
    THEN Err("ErrorDataTooLarge", <<"Size of array">>, pos)
    ELSE Ok(UNIT)

\* Engine::check_return_value: the size-limit check on a returned value
check_return_value(e, r, pos) ==
    IF ~r.ok \/ ~has_data_size_limit(e) THEN r
    ELSE IF raise_err_if_over_data_size_limit(e, calc_data_sizes(r.val), pos).ok THEN r
    ELSE raise_err_if_over_data_size_limit(e, calc_data_sizes(r.val), pos)

\* the result of a call together with the cache it leaves behind
Called(res, c) == [res |-> res, caches |-> c]

\* gen_fn_call_signature: the name and the operand types
gen_fn_call_signature(name, args) == <<name>> \o Types(args)

\* expr.rs 256-257: combine_hashes(hashes.native, calc_fn_params_hash(types))
combine_hashes(hashes, args) == <<hashes, Types(args)>>

\* the registry's function for (name, operand types), or None
resolve_fn(e, name, args) ==
    LET hits == {en \in e.registry : en.name = name /\ en.types = Types(args)}
    IN IF hits = {} THEN None ELSE Some(Registered((CHOOSE en \in hits : TRUE).fn))

\* Engine::exec_fn_call: the general function-resolution path
exec_fn_call(e, c, name, hashes, args, pos) ==
    LET hash == combine_hashes(hashes, args)
        entry == IF hash \in DOMAIN c THEN c[hash] ELSE resolve_fn(e, name, args)
        c2 == IF hash \in DOMAIN c THEN c ELSE c @@ (hash :> entry)
    IN IF entry.some
       THEN Called(check_return_value(e, call_fn(entry.get, name, args), pos), c2)
       ELSE Called(Err("ErrorFunctionNotFound", gen_fn_call_signature(name, args), pos), c2)

\* expr.rs 234: the call takes the fast path
fast_path(e, expr) ==
    expr.is_native_operator /\ e.fast_operators /\ Len(expr.args) \in {1, 2}

\* expr.rs 290-291: the error for a slot that holds the negative marker
function_not_found_by_name(name, operands, pos) ==
    Err("ErrorFunctionNotFound", <<name>>, pos)
function_not_found(name, operands, pos) ==
    Err("ErrorFunctionNotFound", gen_fn_call_signature(name, operands), pos)

\* expr.rs 276-282: a vacant slot and no cell in the table: the call is handed to
\* exec_fn_call with the cache as it is
vacant_miss_marking(e, c, expr, operands, pos) ==
    exec_fn_call(e, c @@ (combine_hashes(expr.hashes, operands) :> None),
                 expr.name, expr.hashes, operands, pos)
vacant_miss(e, c, expr, operands, pos) ==
    exec_fn_call(e, c, expr.name, expr.hashes, operands, pos)

\* expr.rs 256-302: the fast path, from the flattened operands on
fast_operator_call(e, c, expr, operands, pos) ==
    LET hash == combine_hashes(expr.hashes, operands)
        func == IF Len(operands) = 2
                THEN get_builtin_binary_op_fn(expr.name, operands[1], operands[2])
                ELSE None
    IN IF hash \notin DOMAIN c
       THEN IF func.some
            THEN Called(check_return_value(e, call_fn(Builtin(func.get), expr.name, operands),
                                           pos),
                        c @@ (hash :> Some(Builtin(func.get))))
            ELSE vacant_miss(e, c, expr, operands, pos)
       ELSE IF c[hash].some
       THEN Called(check_return_value(e, call_fn(c[hash].get, expr.name, operands), pos), c)
       ELSE Called(function_not_found(expr.name, operands, pos), c)

\* Engine::eval_fn_call_expr, from the argument values on
eval_fn_call_values(e, c, expr, args, pos) ==
    IF fast_path(e, expr)
    THEN fast_operator_call(e, c, expr, args, pos)
    ELSE exec_fn_call(e, c, expr.name, expr.hashes, args, pos)

----------------------------------------------------------------------------
(***************************************************************************)
(* eval_expr as a stack machine.  A frame is one active call of eval_expr: *)
(* path is the node, pc is "start" before the call has run and "wait"      *)
(* while it waits for the call of child i, acc holds the values collected  *)
(* so far, base is the scope length at entry and host records that a host  *)
(* callback run within the call changed the scope.                         *)
(***************************************************************************)
Frame(path, base) ==
    [path |-> path, pc |-> "start", i |-> 0, acc |-> <<>>, base |-> base, host |-> FALSE,
     reset |-> None]
Front(s) == SubSeq(s, 1, Len(s) - 1)
Top == stack[Len(stack)]
Node == NodeAt(ast, Top.path)
ChildPos(i) == Append(Top.path, i)
AtStart(kinds) == stack # <<>> /\ Top.pc = "start" /\ Node.kind \in kinds
AtWait(kinds) == stack # <<>> /\ Top.pc = "wait" /\ ret.some /\ Node.kind \in kinds

\* Engine::inc_operations: count the visit and fail past the ceiling (0: no ceiling)
inc_operations(e, g, pos) ==
    LET n == g.num_operations + 1
    IN IF e.max_operations > 0 /\ n > e.max_operations
       THEN [ok |-> FALSE, ops |-> n, err |-> Err("ErrorTooManyOperations", <<>>, pos)]
       ELSE [ok |-> TRUE, ops |-> n]

\* expr.rs 367-368, 386-387, 404-405: every kind of expression counts the visit
\* first and returns at once when counting fails
counted_unless_leaf(e, g, expr, pos) ==
    IF Children(expr) = <<>>
    THEN [ok |-> TRUE, ops |-> g.num_operations]
    ELSE inc_operations(e, g, pos)
counted(e, g, expr, pos) == inc_operations(e, g, pos)

\* Engine::run_debugger_with_reset and Engine::run_debugger: with a debugger
\* registered the hook is run on the expression; it leaves the debugger in the status
\* for the evaluation of the expression and returns the status to restore afterwards
\* (a variable access runs the hook without one)
run_debugger_with_reset(e, g, expr) ==
    IF e.debugger /\ expr.kind # "Variable"
    THEN [status |-> "Continue", reset |-> Some("Step")]
    ELSE [status |-> g.debugger, reset |-> None]

\* Debugger::reset_status
reset_status(status, reset) == IF reset.some THEN reset.get ELSE status

\* the debugger of the call on top: what the hook made of it when the call starts
\* (expr.rs 363-365, 383-384, 400-402), and what the call keeps while it waits
Hook ==
    IF Top.pc = "start" THEN run_debugger_with_reset(engine, global, Node)
    ELSE [status |-> global.debugger, reset |-> Top.reset]

Count == counted(engine, global, Node, Top.path)
Ops == global.num_operations
Here == Len(scope)
Dirty == Top.host \/ ret.host

Entered(ops) == [ev |-> "enter", path |-> Top.path, ops |-> ops, slen |-> Len(scope)]
Exited(r, ops, slen, host, status) ==
    [ev |-> "exit", path |-> Top.path, res |-> r, ops |-> ops, slen |-> slen,
     base |-> Top.base, host |-> host, reset |-> Hook.reset, debugger |-> status]

\* the call returns r to its caller with the debugger in the given status
Return(r, ops, slen, host, pre, status) ==
    /\ stack' = Front(stack)
    /\ ret' = [some |-> TRUE, get |-> r, host |-> host]
    /\ trace' = trace \o pre \o <<Exited(r, ops, slen, host, status)>>
    /\ global' = [global EXCEPT !.num_operations = ops, !.debugger = status]

\* expr.rs 373-376, 622-625: the call returns r through the end of the function, where
\* the status the hook returned is restored
Leave(r, ops, slen, host, pre) ==
    Return(r, ops, slen, host, pre, reset_status(Hook.status, Hook.reset))

\* the call returns r from within, by a `?`
LeaveEarly(r, ops, slen, host, pre) ==
    Return(r, ops, slen, host, pre, Hook.status)

\* the call calls eval_expr on child i
Descend(i, acc, slen, host, pre) ==
    /\ stack' = Append([stack EXCEPT ![Len(stack)] =
                            [Top EXCEPT !.pc = "wait", !.i = i, !.acc = acc, !.host = host,
                                        !.reset = Hook.reset]],
                       Frame(ChildPos(i), slen))
    /\ ret' = NoRet
    /\ trace' = trace \o pre
    /\ global' = [global EXCEPT
                      !.num_operations = IF Top.pc = "start" THEN Count.ops ELSE @,
                      !.debugger = Hook.status]

\* expr.rs 409-416: constants
EvalConstant ==
    /\ AtStart({"DynamicConstant", "BoolConstant", "IntegerConstant", "StringConstant",
                "Unit"})
    /\ IF ~Count.ok
       THEN LeaveEarly(Count.err, Count.ops, Here, FALSE, <<Entered(Count.ops)>>)
       ELSE Leave(Ok(Node.val), Count.ops, Here, FALSE, <<Entered(Count.ops)>>)
    /\ UNCHANGED <<engine, lib, this_ptr, scope, caches, ast, call, out>>

\* expr.rs 389-397: `this`, or the search of the scope and the imports
variable_value(e, g, l, tp, sc, expr, pos) ==
    IF expr.short = 0 /\ expr.long = 0 /\ expr.name = KEYWORD_THIS
    THEN IF tp.some THEN Ok(tp.get) ELSE Err("ErrorUnboundThis", <<>>, pos)
    ELSE LET found == search_namespace(e, g, l, tp, sc, expr, pos).res
         IN IF found.ok THEN Ok(found.val) ELSE found

\* expr.rs 382-398
EvalVariable ==
    /\ AtStart({"Variable"})
    /\ Leave(IF Count.ok
             THEN variable_value(engine, global, lib, this_ptr, scope, Node, Top.path)
             ELSE Count.err,
             Count.ops, Here, FALSE, <<Entered(Count.ops)>>)
    /\ UNCHANGED <<engine, lib, this_ptr, scope, caches, ast, call, out>>

\* expr.rs 362-377 and 229-247: a call without arguments is made at once, otherwise
\* the first argument is evaluated
EvalFnCall ==
    /\ AtStart({"FnCall"})
    /\ LET made == eval_fn_call_values(engine, caches, Node, <<>>, Top.path)
       IN IF ~Count.ok
          THEN /\ LeaveEarly(Count.err, Count.ops, Here, FALSE, <<Entered(Count.ops)>>)
               /\ caches' = caches
          ELSE IF Node.args = <<>>
          THEN /\ Leave(made.res, Count.ops, Here, FALSE, <<Entered(Count.ops)>>)
               /\ caches' = made.caches
          ELSE /\ Descend(1, <<>>, Here, FALSE, <<Entered(Count.ops)>>)
               /\ caches' = caches
    /\ UNCHANGED <<engine, lib, this_ptr, scope, ast, call, out>>

\* expr.rs 236-247 (get_arg_value and `?`) and make_function_call: a failed argument
\* ends the call; the fast path flattens each operand
ResumeFnCall ==
    /\ AtWait({"FnCall"})
    /\ LET r == ret.get
           value == IF fast_path(engine, Node) THEN flatten(r.val) ELSE r.val
           args == Append(Top.acc, value)
           made == eval_fn_call_values(engine, caches, Node, args, Top.path)
       IN IF ~r.ok
          THEN /\ Leave(r, Ops, Here, Dirty, <<>>)
               /\ caches' = caches
          ELSE IF Top.i < Len(Node.args)
          THEN /\ Descend(Top.i + 1, args, Here, Dirty, <<>>)
               /\ caches' = caches
          ELSE /\ Leave(made.res, Ops, Here, Dirty, <<>>)
               /\ caches' = made.caches
    /\ UNCHANGED <<engine, lib, this_ptr, scope, ast, call, out>>

\* the characters of the decimal form of a natural number
DigitChars == <<"0", "1", "2", "3", "4", "5", "6", "7", "8", "9">>
RECURSIVE Digits(_)
Digits(n) ==
    IF n < 10 THEN <<DigitChars[n + 1]>>
    ELSE Append(Digits(n \div 10), DigitChars[(n % 10) + 1])

\* Engine::eval_op_assignment with OP_CONCAT on the string accumulator: the text of
\* the item is appended; a type without `+=` on strings is a missing function
eval_op_assignment(target, item, pos) ==
    CASE item.ty = "string" -> Ok(target \o item.v)
      [] item.ty = "i64" /\ item.v >= 0 -> Ok(target \o Digits(item.v))
      [] item.ty = "bool" ->
            Ok(target \o (IF item.v THEN <<"t", "r", "u", "e">>
                          ELSE <<"f", "a", "l", "s", "e">>))
      [] item.ty = "()" -> Ok(target)
      [] OTHER -> Err("ErrorFunctionNotFound", <<"+=", "string", item.ty>>, pos)

\* expr.rs 419-426 and 447-450
EvalInterpolatedString ==
    /\ AtStart({"InterpolatedString"})
    /\ IF ~Count.ok
       THEN LeaveEarly(Count.err, Count.ops, Here, FALSE, <<Entered(Count.ops)>>)
       ELSE IF Node.items = <<>>
       THEN Leave(check_return_value(engine, Ok(StrV(<<>>)), Top.path),
                  Count.ops, Here, FALSE, <<Entered(Count.ops)>>)
       ELSE Descend(1, <<>>, Here, FALSE, <<Entered(Count.ops)>>)
    /\ UNCHANGED <<engine, lib, this_ptr, scope, caches, ast, call, out>>

\* expr.rs 427-450: one turn of the loop after the segment's value came back
ResumeInterpolatedString ==
    /\ AtWait({"InterpolatedString"})
    /\ LET r == ret.get
           added == eval_op_assignment(Top.acc, r.val, ChildPos(Top.i))
       IN IF ~r.ok
          THEN Leave(check_return_value(engine, r, Top.path), Ops, Here, Dirty, <<>>)
          ELSE IF ~added.ok
          THEN Leave(check_return_value(engine, added, Top.path), Ops, Here, Dirty, <<>>)
          ELSE IF Top.i < Len(Node.items)
          THEN Descend(Top.i + 1, added.val, Here, Dirty, <<>>)
          ELSE Leave(check_return_value(engine, Ok(StrV(added.val)), Top.path),
                     Ops, Here, Dirty, <<>>)
    /\ UNCHANGED <<engine, lib, this_ptr, scope, caches, ast, call, out>>

\* expr.rs 462-470, 500-508: the loop over the items goes on after an item only
\* when the item's evaluation succeeded
item_accepted_always(r) == TRUE
item_accepted(r) == r.ok

\* the sizes of the values collected so far (expr.rs 479-483, 517)
Sizes(vals) == SumSizes(vals, Len(vals))

\* expr.rs 454-461 and 488
EvalArray ==
    /\ AtStart({"Array"})
    /\ IF ~Count.ok
       THEN LeaveEarly(Count.err, Count.ops, Here, FALSE, <<Entered(Count.ops)>>)
       ELSE IF Node.items = <<>>
       THEN Leave(Ok(Arr(<<>>)), Count.ops, Here, FALSE, <<Entered(Count.ops)>>)
       ELSE Descend(1, <<>>, Here, FALSE, <<Entered(Count.ops)>>)
    /\ UNCHANGED <<engine, lib, this_ptr, scope, caches, ast, call, out>>

\* expr.rs 461-488: one turn of the loop after the item's value came back
ResumeArray ==
    /\ AtWait({"Array"})
    /\ LET r == ret.get
           value == IF r.ok THEN flatten(r.val) ELSE UNIT
           array == Append(Top.acc, value)
           limit == IF has_data_size_limit(engine)
                    THEN raise_err_if_over_data_size_limit(engine, Sizes(array),
                                                           ChildPos(Top.i))
                    ELSE Ok(UNIT)
       IN IF ~item_accepted(r)
          THEN Leave(r, Ops, Here, Dirty, <<>>)
          ELSE IF ~limit.ok
          THEN LeaveEarly(limit, Ops, Here, Dirty, <<>>)
          ELSE IF Top.i < Len(Node.items)
          THEN Descend(Top.i + 1, array, Here, Dirty, <<>>)
          ELSE Leave(Ok(Arr(array)), Ops, Here, Dirty, <<>>)
    /\ UNCHANGED <<engine, lib, this_ptr, scope, caches, ast, call, out>>

\* the key template of a map literal: every key bound to ()
Template(keys) == [i \in 1..Len(keys) |-> [key |-> keys[i], value |-> UNIT]]

\* expr.rs 492-499 and 522
EvalMap ==
    /\ AtStart({"Map"})
    /\ IF ~Count.ok
       THEN LeaveEarly(Count.err, Count.ops, Here, FALSE, <<Entered(Count.ops)>>)
       ELSE IF Node.items = <<>>
       THEN Leave(Ok(MapOf(<<>>)), Count.ops, Here, FALSE, <<Entered(Count.ops)>>)
       ELSE Descend(1, Template(Node.keys), Here, FALSE, <<Entered(Count.ops)>>)
    /\ UNCHANGED <<engine, lib, this_ptr, scope, caches, ast, call, out>>

\* expr.rs 499-522: one turn of the loop after the value came back
ResumeMap ==
    /\ AtWait({"Map"})
    /\ LET r == ret.get
           value == IF r.ok THEN flatten(r.val) ELSE UNIT
           map == [Top.acc EXCEPT ![Top.i].value = value]
           sizes == Sizes([k \in 1..Top.i |-> map[k].value])
           limit == IF has_data_size_limit(engine)
                    THEN raise_err_if_over_data_size_limit(engine, sizes, ChildPos(Top.i))
                    ELSE Ok(UNIT)
       IN IF ~item_accepted(r)
          THEN Leave(r, Ops, Here, Dirty, <<>>)
          ELSE IF ~limit.ok
          THEN LeaveEarly(limit, Ops, Here, Dirty, <<>>)
          ELSE IF Top.i < Len(Node.items)
          THEN Descend(Top.i + 1, map, Here, Dirty, <<>>)
          ELSE Leave(Ok(MapOf(map)), Ops, Here, Dirty, <<>>)
    /\ UNCHANGED <<engine, lib, this_ptr, scope, caches, ast, call, out>>

\* expr.rs 528-532, 536-542: the value as a bool, or the type mismatch at the operand
coerce_bool_unchecked(r, pos) == r
coerce_bool(r, pos) ==
    IF ~r.ok THEN r
    ELSE IF as_bool(r.val).ok THEN Ok(BoolV(as_bool(r.val).b))
    ELSE Err("ErrorMismatchDataType", <<"bool", as_bool(r.val).typ>>, pos)

\* expr.rs 534: `if let Ok(true) = lhs`
and_evaluates_rhs_unless_error(lhs) == lhs.ok
and_evaluates_rhs(lhs) == lhs.ok /\ lhs.val = BoolV(TRUE)

\* expr.rs 557: `if let Ok(false) = lhs`
or_evaluates_rhs(lhs) == lhs.ok /\ lhs.val = BoolV(FALSE)

\* expr.rs 575: `Ok(value) if value.is::<()>()`
coalesce_evaluates_rhs_on_value(lhs) == lhs.ok
coalesce_evaluates_rhs(lhs) == lhs.ok /\ lhs.val.ty = "()"

\* expr.rs 525-527, 548-550, 571-572: the left operand is evaluated first
EvalAnd ==
    /\ AtStart({"And"})
    /\ IF ~Count.ok
       THEN LeaveEarly(Count.err, Count.ops, Here, FALSE, <<Entered(Count.ops)>>)
       ELSE Descend(1, <<>>, Here, FALSE, <<Entered(Count.ops)>>)
    /\ UNCHANGED <<engine, lib, this_ptr, scope, caches, ast, call, out>>

\* expr.rs 528-545
ResumeAnd ==
    /\ AtWait({"And"})
    /\ LET operand == coerce_bool(ret.get, ChildPos(Top.i))
       IN IF Top.i = 1 /\ and_evaluates_rhs(operand)
          THEN Descend(2, <<>>, Here, Dirty, <<>>)
          ELSE Leave(operand, Ops, Here, Dirty, <<>>)
    /\ UNCHANGED <<engine, lib, this_ptr, scope, caches, ast, call, out>>

EvalOr ==
    /\ AtStart({"Or"})
    /\ IF ~Count.ok
       THEN LeaveEarly(Count.err, Count.ops, Here, FALSE, <<Entered(Count.ops)>>)
       ELSE Descend(1, <<>>, Here, FALSE, <<Entered(Count.ops)>>)
    /\ UNCHANGED <<engine, lib, this_ptr, scope, caches, ast, call, out>>

\* expr.rs 551-568
ResumeOr ==
    /\ AtWait({"Or"})
    /\ LET operand == coerce_bool(ret.get, ChildPos(Top.i))
       IN IF Top.i = 1 /\ or_evaluates_rhs(operand)
          THEN Descend(2, <<>>, Here, Dirty, <<>>)
          ELSE Leave(operand, Ops, Here, Dirty, <<>>)
    /\ UNCHANGED <<engine, lib, this_ptr, scope, caches, ast, call, out>>

EvalCoalesce ==
    /\ AtStart({"Coalesce"})
    /\ IF ~Count.ok
       THEN LeaveEarly(Count.err, Count.ops, Here, FALSE, <<Entered(Count.ops)>>)
       ELSE Descend(1, <<>>, Here, FALSE, <<Entered(Count.ops)>>)
    /\ UNCHANGED <<engine, lib, this_ptr, scope, caches, ast, call, out>>

\* expr.rs 574-579
ResumeCoalesce ==
    /\ AtWait({"Coalesce"})
    /\ IF Top.i = 1 /\ coalesce_evaluates_rhs(ret.get)
       THEN Descend(2, <<>>, Here, Dirty, <<>>)
       ELSE Leave(ret.get, Ops, Here, Dirty, <<>>)
    /\ UNCHANGED <<engine, lib, this_ptr, scope, caches, ast, call, out>>

\* what a registered custom-syntax evaluator may do with the evaluation context it
\* is handed: return a value or an error, and leave the scope alone or push onto it
HostResults == {Ok(BoolV(TRUE)), Ok(Custom(1)), Err("ErrorRuntime", <<"host">>, NoPos)}
HostPushes == {<<>>, <<[name |-> "h", value |-> IntV(7)]>>}

\* expr.rs 583-602: the evaluator registered under the key is run on the scope
EvalCustom ==
    /\ AtStart({"Custom"})
    /\ IF ~Count.ok
       THEN /\ LeaveEarly(Count.err, Count.ops, Here, FALSE, <<Entered(Count.ops)>>)
            /\ scope' = scope
       ELSE IF Node.key \notin engine.custom_syntax
       THEN /\ LeaveEarly(Err("ErrorCustomSyntax", <<Node.key>>, Top.path),
                          Count.ops, Here, FALSE, <<Entered(Count.ops)>>)
            /\ scope' = scope
       ELSE \E result \in HostResults, pushed \in HostPushes :
               /\ scope' = scope \o pushed
               /\ Leave(check_return_value(engine, result, Top.path),
                        Count.ops, Len(scope \o pushed), pushed # <<>>,
                        <<Entered(Count.ops)>>)
    /\ UNCHANGED <<engine, lib, this_ptr, caches, ast, call, out>>

\* expr.rs 606: the block is run with restore_scope = true
restore_scope_off == FALSE
restore_scope == TRUE

\* Scope::rewind
rewind(sc, size) == SubSeq(sc, 1, size)

\* expr.rs 604-607: an empty block is (), another is handed to eval_stmt_block
EvalStmt ==
    /\ AtStart({"Stmt"})
    /\ IF ~Count.ok
       THEN LeaveEarly(Count.err, Count.ops, Here, FALSE, <<Entered(Count.ops)>>)
       ELSE IF Node.block = <<>>
       THEN Leave(Ok(UNIT), Count.ops, Here, FALSE, <<Entered(Count.ops)>>)
       ELSE Descend(1, <<>>, Here, FALSE, <<Entered(Count.ops)>>)
    /\ UNCHANGED <<engine, lib, this_ptr, scope, caches, ast, call, out>>

\* Engine::eval_stmt_block: the statements run in order, a declaration pushes its
\* variable, the first error ends the block, and the scope is rewound to its length
\* at entry when restore_scope is set
ResumeStmt ==
    /\ AtWait({"Stmt"})
    /\ LET r == ret.get
           st == Node.block[Top.i]
           declared == IF r.ok /\ st.stmt = "let"
                       THEN Append(scope, [name |-> st.name, value |-> r.val])
                       ELSE scope
           restored == IF restore_scope THEN rewind(declared, Top.base) ELSE declared
           host == Dirty /\ ~restore_scope
       IN IF r.ok /\ Top.i < Len(Node.block)
          THEN /\ scope' = declared
               /\ Descend(Top.i + 1, <<>>, Len(declared), Dirty, <<>>)
          ELSE /\ scope' = restored
               /\ Leave(IF r.ok /\ st.stmt = "let" THEN Ok(UNIT) ELSE r,
                        Ops, Len(restored), host, <<>>)
    /\ UNCHANGED <<engine, lib, this_ptr, caches, ast, call, out>>

----------------------------------------------------------------------------
(***************************************************************************)
(* Registries.  The standard registry holds, for every cell of the         *)
(* dispatch table, the standard package's function of the same name and    *)
(* operand types, and the logical not on bool.                             *)
(***************************************************************************)
ModelTypes == {"i64", "bool", "string", "()", "T"}
OperatorNames == {"+", "==", "!=", OP_CONTAINS}
Sample(t) ==
    CASE t = "i64" -> IntV(1)
      [] t = "bool" -> BoolV(TRUE)
      [] t = "string" -> StrV(<<"a">>)
      [] t = "()" -> UNIT
      [] t = "T" -> Custom(1)
HasCell(op, t1, t2) == get_builtin_binary_op_fn(op, Sample(t1), Sample(t2)).some
Entry(name, types, fn) == [name |-> name, types |-> types, fn |-> fn]
StdRegistry ==
    {Entry(op, <<t1, t2>>, "std") :
        <<op, t1, t2>> \in {c \in OperatorNames \X ModelTypes \X ModelTypes :
                               HasCell(c[1], c[2], c[3])}}
    \cup {Entry("!", <<"bool">>, "std")}

\* the registry with the host's function registered for (name, types)
Override(reg, name, types, fn) ==
    {en \in reg : ~(en.name = name /\ en.types = types)} \cup {Entry(name, types, fn)}

(***************************************************************************)
(* Evaluation of one expression: the tree and the engine's limits are      *)
(* drawn at the start, the scope holds x = true, and each step is one      *)
(* entry or one continuation of a call of eval_expr.                       *)
(***************************************************************************)
T == BoolConstant(TRUE)
F == BoolConstant(FALSE)
Atoms == {T, F, UnitExpr, IntegerConstant(1), StringConstant(<<"a">>), Var("x"), Var("z")}
Few == {T, F, Var("z")}
Logic ==
    {And(a, b) : a \in Atoms, b \in Atoms} \cup {Or(a, b) : a \in Atoms, b \in Atoms}
    \cup {Coalesce(a, b) : a \in Atoms, b \in Atoms}
Lists ==
    {ArrayExpr(<<a, b>>) : a \in Atoms, b \in Atoms}
    \cup {MapExpr(<<"k", "l">>, <<a, b>>) : a \in Atoms, b \in Atoms}
    \cup {InterpolatedString(<<a, b>>) : a \in Atoms, b \in Atoms}
    \cup {ArrayExpr(<<a, b, c>>) : a \in Few, b \in Few, c \in Few}
    \cup {InterpolatedString(<<a, b, c>>) : a \in Few, b \in Few, c \in Few}
    \cup {ArrayExpr(<<>>), MapExpr(<<>>, <<>>), InterpolatedString(<<>>)}
Calls ==
    {FnCall("+", <<a, b>>, TRUE) : a \in Atoms, b \in Atoms}
    \cup {FnCall("==", <<a, b>>, TRUE) : a \in Atoms, b \in Atoms}
    \cup {FnCall("f", <<a, b>>, FALSE) : a \in Atoms, b \in Atoms}
    \cup {FnCall("f", <<a, b, c>>, FALSE) : a \in Few, b \in Few, c \in Few}
    \cup {FnCall("!", <<a>>, TRUE) : a \in Atoms}
    \cup {FnCall("f", <<>>, FALSE)}
Nested ==
    {And(Or(a, b), c) : a \in Few, b \in Few, c \in Few}
    \cup {Or(And(a, b), c) : a \in Few, b \in Few, c \in Few}
    \cup {ArrayExpr(<<And(a, b), c>>) : a \in Few, b \in Few, c \in Few}
    \cup {FnCall("==", <<Or(a, b), c>>, TRUE) : a \in Few, b \in Few, c \in Few}
    \cup {ArrayExpr(<<ArrayExpr(<<a, b>>), c>>) : a \in Few, b \in Few, c \in Few}
    \cup {MapExpr(<<"k", "l">>, <<ArrayExpr(<<a, b>>), c>>) : a \in Few, b \in Few, c \in Few}
Blocks ==
    {StmtExpr(<<Let("y", a), ExprStmt(b)>>) : a \in Few, b \in {Var("y"), Var("z"), T}}
    \cup {And(StmtExpr(<<Let("y", a)>>), Var("y")) : a \in Few}
    \cup {Coalesce(StmtExpr(<<Let("y", a)>>), Var("y")) : a \in Few}
    \cup {StmtExpr(<<>>)}
Customs ==
    {CustomExpr("push"), CustomExpr("unknown")}
    \cup {And(CustomExpr("push"), a) : a \in Few}
    \cup {ArrayExpr(<<CustomExpr("push"), a>>) : a \in Few}
    \cup {InterpolatedString(<<CustomExpr("push"), a>>) : a \in Few}
    \cup {StmtExpr(<<ExprStmt(CustomExpr("push")), ExprStmt(a)>>) : a \in Few}
Trees == Logic \cup Lists \cup Calls \cup Nested \cup Blocks \cup Customs

EvalRegistry ==
    StdRegistry \cup {Entry("f", <<>>, "answer"), Entry("f", <<"bool", "bool">>, "answer"),
                      Entry("f", <<"bool", "bool", "bool">>, "throw")}

Init ==
    /\ ast \in Trees
    /\ \E m \in 0..MaxCeiling, f \in BOOLEAN, a \in 0..MaxArraySize, d \in BOOLEAN :
          engine = [DefaultEngine EXCEPT !.max_operations = m, !.fast_operators = f,
                                         !.max_array_size = a, !.registry = EvalRegistry,
                                         !.custom_syntax = {"push"}, !.debugger = d]
    /\ global = DefaultGlobal
    /\ lib = {}
    /\ this_ptr = NoThis
    /\ scope = <<[name |-> "x", value |-> BoolV(TRUE)]>>
    /\ caches = EmptyCache
    /\ stack = <<Frame(<<>>, 1)>>
    /\ ret = NoRet
    /\ trace = <<>>
    /\ call = 0
    /\ out = NoOut

Next ==
    \/ EvalConstant
    \/ EvalVariable
    \/ EvalFnCall
    \/ ResumeFnCall
    \/ EvalInterpolatedString
    \/ ResumeInterpolatedString
    \/ EvalArray
    \/ ResumeArray
    \/ EvalMap
    \/ ResumeMap
    \/ EvalAnd
    \/ ResumeAnd
    \/ EvalOr
    \/ ResumeOr
    \/ EvalCoalesce
    \/ ResumeCoalesce
    \/ EvalCustom
    \/ EvalStmt
    \/ ResumeStmt

Spec == Init /\ [][Next]_vars

(***************************************************************************)
(* Function calls on their own: the registry and the mode are drawn at the *)
(* start and each step evaluates one call expression whose arguments are   *)
(* constants.  For comparison each step also records what the same call    *)
(* returns on a cleared cache, and what it returns in the run of the same  *)
(* calls under the other setting of fast-operator mode (shadow is that     *)
(* run's cache).                                                           *)
(***************************************************************************)
CallRegistries ==
    {StdRegistry,
     StdRegistry \cup {Entry("+", <<"T", "T">>, "answer")},
     Override(StdRegistry, OP_CONTAINS, <<"string", "string">>, "answer"),
     Override(StdRegistry, "+", <<"i64", "i64">>, "throw")}
CallOperands == {IntV(1), StrV(<<"a">>), Custom(1)}
BinaryCalls(native) ==
    {FnCall(n, <<DynamicConstant(x), DynamicConstant(y)>>, native) :
        n \in {"+", "==", OP_CONTAINS}, x \in CallOperands, y \in CallOperands}
UnaryCalls(native) ==
    {FnCall("!", <<DynamicConstant(x)>>, native) : x \in {BoolV(TRUE), Custom(1)}}

InitCall ==
    /\ \E reg \in CallRegistries, f \in BOOLEAN :
          engine = [DefaultEngine EXCEPT !.registry = reg, !.fast_operators = f]
    /\ global = DefaultGlobal
    /\ lib = {}
    /\ this_ptr = NoThis
    /\ scope = <<>>
    /\ InitRest

\* the values of constant arguments (expr.rs 236-247)
ArgValues(e, expr) ==
    [i \in 1..Len(expr.args) |->
        IF fast_path(e, expr) THEN flatten(expr.args[i].val) ELSE expr.args[i].val]

Flipped == [engine EXCEPT !.fast_operators = ~@]
Shadow == IF out.op = "call" THEN out.shadow ELSE EmptyCache

\* one call of eval_fn_call_expr, with the two comparison runs
MakeCall(expr) ==
    LET made == eval_fn_call_values(engine, caches, expr, ArgValues(engine, expr), <<>>)
        fresh == eval_fn_call_values(engine, EmptyCache, expr, ArgValues(engine, expr), <<>>)
        other == eval_fn_call_values(Flipped, Shadow, expr, ArgValues(Flipped, expr), <<>>)
    IN /\ caches' = made.caches
       /\ out' = [op |-> "call", expr |-> expr, r |-> made.res, before |-> caches,
                  cleared |-> fresh.res, flipped |-> other.res, shadow |-> other.caches]

\* a native operator call: `a + b`, `a == b`, `a in b`, `!a`
CallOperator ==
    /\ call < MaxCalls
    /\ call' = call + 1
    /\ \E expr \in BinaryCalls(TRUE) \cup UnaryCalls(TRUE) : MakeCall(expr)
    /\ UNCHANGED <<engine, global, lib, this_ptr, scope, ast, stack, ret, trace>>

\* a call in function-call syntax
CallFunction ==
    /\ call < MaxCalls
    /\ call' = call + 1
    /\ \E expr \in BinaryCalls(FALSE) \cup UnaryCalls(FALSE) : MakeCall(expr)
    /\ UNCHANGED <<engine, global, lib, this_ptr, scope, ast, stack, ret, trace>>

NextCall == CallOperator \/ CallFunction

SpecCall == InitCall /\ [][NextCall]_vars

(***************************************************************************)
(* The dispatch table on its own: one step looks up the cell for an        *)
(* operator and two operands (get_builtin_binary_op_fn), the next invokes  *)
(* the cell on the operands.  The engine's mode and the operation counter  *)
(* are drawn at the start; they make up the call context handed to a cell. *)
(***************************************************************************)
OpNames == {"+", "-", OP_CONTAINS} \cup Comparisons
Text(str) ==
    CASE str = "apple" -> <<"a", "p", "p", "l", "e">>
      [] str = "apricot" -> <<"a", "p", "r", "i", "c", "o", "t">>
      [] str = "banana" -> <<"b", "a", "n", "a", "n", "a">>
Strings ==
    {<<>>, <<"a">>, <<"b">>, <<"a", "b">>, <<"a", "b", "c">>, <<"a", "c">>,
     Text("apple"), Text("apricot"), Text("banana")}
OpValues ==
    {IntV(1), IntV(2), Dyn("f64", 1), Dyn("f64", 2), BoolV(FALSE), BoolV(TRUE), UNIT}
    \cup {StrV(s) : s \in Strings}
    \cup {Dyn("char", "a"), Dyn("char", "b")}
    \cup {Dyn("blob", <<>>), Dyn("blob", <<1>>), Arr(<<>>),
          MapOf(<<>>), MapOf(<<[key |-> "a", value |-> UNIT]>>),
          Dyn("range", <<1, 2>>), Dyn("range_incl", <<1, 2>>)}
    \cup {Custom(1), Custom(2), Dyn("U", 1), Dyn("u8", 1), Dyn("u16", 1)}

InitOp ==
    /\ \E f \in BOOLEAN : engine = [DefaultEngine EXCEPT !.fast_operators = f]
    /\ \E n \in 0..1 : global = [DefaultGlobal EXCEPT !.num_operations = n]
    /\ lib = {}
    /\ this_ptr = NoThis
    /\ scope = <<>>
    /\ InitRest

\* the call context of a cell (expr.rs 296)
Context(e, g, name) ==
    [fast_operators |-> e.fast_operators, num_operations |-> g.num_operations,
     fn_name |-> name]

\* get_builtin_binary_op_fn(op, x, y)
GetBuiltin ==
    /\ out.op = "none"
    /\ \E op \in OpNames, x \in OpValues, y \in OpValues :
          out' = [op |-> "get", name |-> op, x |-> x, y |-> y,
                  cell |-> get_builtin_binary_op_fn(op, x, y)]
    /\ UNCHANGED <<engine, global, lib, this_ptr, scope, caches, ast, stack, ret, trace, call>>

\* the cell is invoked on the operands (expr.rs 296-301)
InvokeBuiltin ==
    /\ out.op = "get" /\ out.cell.some /\ Implemented(out.cell.get)
    /\ LET done == apply_cell(Context(engine, global, out.name), out.cell.get,
                              <<out.x, out.y>>)
       IN out' = [op |-> "invoke", name |-> out.name, x |-> out.x, y |-> out.y,
                  cell |-> out.cell, r |-> done.res, args |-> done.args]
    /\ UNCHANGED <<engine, global, lib, this_ptr, scope, caches, ast, stack, ret, trace, call>>

NextOp == GetBuiltin \/ InvokeBuiltin

SpecOp == InitOp /\ [][NextOp]_vars

----------------------------------------------------------------------------
(***************************************************************************)
(* The two tables side by side: one step looks up the cell of an operator  *)
(* or of an op-assignment token for two operands, the next invokes the     *)
(* cell.  An invocation of an op-assignment cell also records, for         *)
(* comparison, the cell of the binary table for the operator the token     *)
(* applies and what that cell returns on the same operands.               *)
(***************************************************************************)
ArithValues ==
    {IntV(n) : n \in {MinInt, -1, 0, 1, 2, IntBits - 1, MaxInt}}
    \cup {Dyn("f64", 1), Dyn("f64", 2), BoolV(FALSE), BoolV(TRUE), UNIT}
    \cup {StrV(<<>>), StrV(<<"a">>), StrV(<<"a", "b", "a">>)}
    \cup {Dyn("char", "a"), Dyn("char", "b")}
    \cup {Dyn("blob", <<>>), Dyn("blob", <<1>>), Arr(<<>>), Arr(<<IntV(1)>>),
          MapOf(<<>>), Custom(1)}

InitAssign ==
    /\ engine = DefaultEngine
    /\ global = DefaultGlobal
    /\ lib = {}
    /\ this_ptr = NoThis
    /\ scope = <<>>
    /\ InitRest

\* get_builtin_binary_op_fn(op, x, y)
GetBinary ==
    /\ out.op = "none"
    /\ \E op \in CheckedOps \cup BitOps \cup Comparisons, x \in ArithValues, y \in ArithValues :
          out' = [op |-> "get", name |-> op, x |-> x, y |-> y,
                  cell |-> get_builtin_binary_op_fn(op, x, y)]
    /\ UNCHANGED <<engine, global, lib, this_ptr, scope, caches, ast, stack, ret, trace, call>>

\* the binary cell is invoked on the operands
InvokeBinary ==
    /\ out.op = "get" /\ out.cell.some /\ Implemented(out.cell.get)
    /\ LET done == apply_cell(Context(engine, global, out.name), out.cell.get,
                              <<out.x, out.y>>)
       IN out' = [op |-> "invoke", name |-> out.name, x |-> out.x, y |-> out.y,
                  cell |-> out.cell, r |-> done.res, args |-> done.args]
    /\ UNCHANGED <<engine, global, lib, this_ptr, scope, caches, ast, stack, ret, trace, call>>

\* get_builtin_op_assignment_fn(op, x, y)
GetAssignment ==
    /\ out.op = "none"
    /\ \E token \in AssignTokens, x \in ArithValues, y \in ArithValues :
          out' = [op |-> "get assign", name |-> token, x |-> x, y |-> y,
                  cell |-> get_builtin_op_assignment_fn(token, x, y),
                  bin |-> get_builtin_binary_op_fn(Binary(token), x, y)]
    /\ UNCHANGED <<engine, global, lib, this_ptr, scope, caches, ast, stack, ret, trace, call>>

\* the op-assignment cell is invoked on the operands
InvokeAssignment ==
    /\ out.op = "get assign" /\ out.cell.some /\ AssignImplemented(out.cell.get)
    /\ LET context == Context(engine, global, out.name)
           done == apply_op_assignment(context, out.cell.get, <<out.x, out.y>>)
       IN out' = [op |-> "assign", name |-> out.name, x |-> out.x, y |-> out.y,
                  cell |-> out.cell, r |-> done.res, args |-> done.args,
                  bin |-> out.bin,
                  binr |-> IF out.bin.some /\ Implemented(out.bin.get)
                           THEN Some(apply_cell(context, out.bin.get, <<out.x, out.y>>).res)
                           ELSE None]
    /\ UNCHANGED <<engine, global, lib, this_ptr, scope, caches, ast, stack, ret, trace, call>>

NextAssign == GetBinary \/ InvokeBinary \/ GetAssignment \/ InvokeAssignment

SpecAssign == InitAssign /\ [][NextAssign]_vars

----------------------------------------------------------------------------
(***************************************************************************)
(* The bloom filter of u64 hashes (types/bloom_filter.rs).  A filter is    *)
(* the array of SIZE words of type usize; a word is modelled by the set of *)
(* the positions of its one bits, 0 being the least significant.  The      *)
(* width of usize is a property of the target and whether an overflowing   *)
(* shift panics or is masked is a property of the build profile, so a      *)
(* build is [usize, checks]: usize is the number of bits of a word and      *)
(* checks tells that overflow checks are compiled in.                      *)
(***************************************************************************)
Builds == [usize : {32, 64}, checks : BOOLEAN]

\* bloom_filter.rs 11: the number of usize values that hold 256 bits
SIZE(build) == (256 \div 8) \div (build.usize \div 8)

\* `0x01 << n` on a usize: a shift by the width or more overflows; it panics when
\* overflow checks are on and otherwise shifts by n modulo the width
shift_overflows(build, n) == n >= build.usize
shl_one(build, n) == {n % build.usize}

\* bloom_filter.rs 26-29: the word and the mask of a hash value
bloom_hash(build, value) ==
    LET h == value % 256
    IN [offset |-> h \div 64, mask |-> shl_one(build, h % 64)]
\* the call of hash panics on the shift
hash_panics(build, value) ==
    build.checks /\ shift_overflows(build, (value % 256) % 64)

\* bloom_filter.rs 33-35
new(build) == [i \in 1..SIZE(build) |-> {}]
\* bloom_filter.rs 39-41
is_empty(filter) == \A i \in DOMAIN filter : filter[i] = {}
\* bloom_filter.rs 50-54: self.0[offset] |= mask
mark_overwriting(build, filter, value) ==
    [filter EXCEPT ![bloom_hash(build, value).offset + 1] = bloom_hash(build, value).mask]
mark(build, filter, value) ==
    [filter EXCEPT ![bloom_hash(build, value).offset + 1] = @ \cup bloom_hash(build, value).mask]
\* bloom_filter.rs 57-60: (self.0[offset] & mask) == 0
is_absent(build, filter, value) ==
    filter[bloom_hash(build, value).offset + 1] \cap bloom_hash(build, value).mask = {}
\* bloom_filter.rs 63-105: `+` and `+=` or the words pairwise
add(lhs, rhs) == [i \in DOMAIN lhs |-> lhs[i] \cup rhs[i]]
add_assign(lhs, rhs) == [i \in DOMAIN lhs |-> lhs[i] \cup rhs[i]]

(***************************************************************************)
(* Two filters, this and other, of one program.  Each step is one          *)
(* operation; marked records the hashes marked on a filter, directly or    *)
(* through a merge, since it was last cleared, fresh that its last change  *)
(* was new or clear.  A panic ends the program.                            *)
(***************************************************************************)
Hashes == {0, 32, 255, 256, 288}

InitBloom ==
    /\ engine = DefaultEngine
    /\ global = DefaultGlobal
    /\ lib = {}
    /\ this_ptr = NoThis
    /\ scope = <<>>
    /\ caches = EmptyCache
    /\ ast = UnitExpr
    /\ stack = <<>>
    /\ ret = NoRet
    /\ trace = <<>>
    /\ call = 0
    /\ \E build \in Builds :
          out = [op |-> "new", build |-> build, panicked |-> FALSE,
                 this |-> new(build), other |-> new(build),
                 marked |-> {}, other_marked |-> {}, fresh |-> TRUE]

Running == out.op # "none" /\ ~out.panicked
Panicked(op, h) == [op |-> op, build |-> out.build, panicked |-> TRUE, h |-> h]
Step(op) ==
    [op |-> op, build |-> out.build, panicked |-> FALSE, this |-> out.this,
     other |-> out.other, marked |-> out.marked, other_marked |-> out.other_marked,
     fresh |-> out.fresh]
Rest == <<engine, global, lib, this_ptr, scope, caches, ast, stack, ret, trace, call>>

\* BloomFilterU64::new()
BloomNew ==
    /\ Running
    /\ out' = [Step("new") EXCEPT !.this = new(out.build), !.marked = {}, !.fresh = TRUE]
    /\ UNCHANGED Rest

\* self.clear()
BloomClear ==
    /\ Running
    /\ out' = [Step("clear") EXCEPT !.this = new(out.build), !.marked = {}, !.fresh = TRUE]
    /\ UNCHANGED Rest

\* self.mark(h)
BloomMark ==
    /\ Running
    /\ \E h \in Hashes :
          out' = IF hash_panics(out.build, h) THEN Panicked("mark", h)
                 ELSE [Step("mark") EXCEPT !.this = mark(out.build, out.this, h),
                                           !.marked = @ \cup {h}, !.fresh = FALSE]
    /\ UNCHANGED Rest

\* other.mark(h)
BloomMarkOther ==
    /\ Running
    /\ \E h \in Hashes :
          out' = IF hash_panics(out.build, h) THEN Panicked("mark other", h)
                 ELSE [Step("mark other") EXCEPT !.other = mark(out.build, out.other, h),
                                                 !.other_marked = @ \cup {h}]
    /\ UNCHANGED Rest

\* other.clear()
BloomClearOther ==
    /\ Running
    /\ out' = [Step("clear other") EXCEPT !.other = new(out.build), !.other_marked = {}]
    /\ UNCHANGED Rest

\* self = &self + &other
BloomAdd ==
    /\ Running
    /\ out' = [Step("add") EXCEPT !.this = add(out.this, out.other),
                                  !.marked = @ \cup out.other_marked, !.fresh = FALSE]
    /\ UNCHANGED Rest

\* self += &other
BloomAddAssign ==
    /\ Running
    /\ out' = [Step("add_assign") EXCEPT !.this = add_assign(out.this, out.other),
                                         !.marked = @ \cup out.other_marked,
                                         !.fresh = FALSE]
    /\ UNCHANGED Rest

\* self.is_absent(h)
BloomIsAbsent ==
    /\ Running
    /\ \E h \in Hashes :
          out' = IF hash_panics(out.build, h) THEN Panicked("is_absent", h)
                 ELSE [op |-> "is_absent", build |-> out.build, panicked |-> FALSE,
                       this |-> out.this, other |-> out.other, marked |-> out.marked,
                       other_marked |-> out.other_marked, fresh |-> out.fresh,
                       h |-> h, result |-> is_absent(out.build, out.this, h)]
    /\ UNCHANGED Rest

\* self.is_empty()
BloomIsEmpty ==
    /\ Running
    /\ out' = [op |-> "is_empty", build |-> out.build, panicked |-> FALSE,
               this |-> out.this, other |-> out.other, marked |-> out.marked,
               other_marked |-> out.other_marked, fresh |-> out.fresh,
               result |-> is_empty(out.this)]
    /\ UNCHANGED Rest

NextBloom ==
    \/ BloomNew \/ BloomClear \/ BloomMark \/ BloomMarkOther \/ BloomClearOther
    \/ BloomAdd \/ BloomAddAssign \/ BloomIsAbsent \/ BloomIsEmpty

SpecBloom == InitBloom /\ [][NextBloom]_vars

----------------------------------------------------------------------------
(***************************************************************************)
(* Serialisation of a dynamic value (serde/serialize.rs).  The serializer  *)
(* is the caller's; what it is handed is modelled by the sequence of the   *)
(* calls made on it, each [call, arg].  A sequence is opened by            *)
(* serialize_seq with the length, a mapping by serialize_map with the      *)
(* number of entries, and both are closed by end; an entry of a mapping is *)
(* serialize_entry with the key, followed by the calls for the value.      *)
(***************************************************************************)
Call(name, arg) == [call |-> name, arg |-> arg]

\* serialize.rs 20: Union::Char(c, ..) => ser.serialize_str(&c.to_string())
char_wire_as_char(c) == <<Call("serialize_char", c)>>
char_wire(c) == <<Call("serialize_str", <<c>>)>>

\* Dynamic::type_name / Variant::type_name
type_name(d) == d.ty

\* serialize.rs 15-83: impl Serialize for Dynamic
RECURSIVE serialize(_)
RECURSIVE serialize_items(_, _)
RECURSIVE serialize_entries(_, _)
serialize_items(items, n) ==
    IF n = 0 THEN <<>> ELSE serialize_items(items, n - 1) \o serialize(items[n])
serialize_entries(m, n) ==
    IF n = 0 THEN <<>>
    ELSE serialize_entries(m, n - 1)
         \o <<Call("serialize_entry", m[n].key)>> \o serialize(m[n].value)
serialize(d) ==
    CASE d.ty = "()" -> <<Call("serialize_unit", 0)>>
      [] d.ty = "bool" -> <<Call("serialize_bool", d.v)>>
      [] d.ty = "string" -> <<Call("serialize_str", d.v)>>
      [] d.ty = "char" -> char_wire(d.v)
      [] d.ty = "i64" -> <<Call("serialize_i64", d.v)>>
      [] d.ty = "f64" -> <<Call("serialize_f64", d.v)>>
      [] d.ty = "array" ->
            <<Call("serialize_seq", Len(d.v))>> \o serialize_items(d.v, Len(d.v))
            \o <<Call("end", 0)>>
      [] d.ty = "blob" ->
            <<Call("serialize_seq", Len(d.v))>>
            \o [i \in 1..Len(d.v) |-> Call("serialize_u8", d.v[i])]
            \o <<Call("end", 0)>>
      [] d.ty = "map" ->
            <<Call("serialize_map", Len(d.v))>> \o serialize_entries(d.v, Len(d.v))
            \o <<Call("end", 0)>>
      [] d.ty = "Fn" -> <<Call("serialize_str", d.v)>>
      [] d.ty = "Shared" -> serialize(d.v)
      [] OTHER -> <<Call("serialize_str", type_name(d))>>

(***************************************************************************)
(* One value is serialised per step.                                       *)
(***************************************************************************)
Plain ==
    {UNIT, BoolV(TRUE), IntV(7), Dyn("f64", 2), Dyn("char", "a"), StrV(<<"a", "b">>),
     FnPtr("f"), Dyn("timestamp", 0), Custom(1), Dyn("blob", <<1, 2>>)}
SerValues ==
    Plain
    \cup {SharedOf(d) : d \in Plain}
    \cup {Arr(<<>>), MapOf(<<>>)}
    \cup {Arr(<<a, b>>) : a \in Plain, b \in Plain}
    \cup {MapOf(<<[key |-> "k", value |-> a], [key |-> "l", value |-> SharedOf(a)]>>) :
            a \in Plain}
    \cup {Arr(<<MapOf(<<[key |-> "k", value |-> Arr(<<a>>)]>>)>>) : a \in Plain}
    \cup {SharedOf(Arr(<<SharedOf(a)>>)) : a \in Plain}

InitSer ==
    /\ engine = DefaultEngine
    /\ global = DefaultGlobal
    /\ lib = {}
    /\ this_ptr = NoThis
    /\ scope = <<>>
    /\ InitRest

\* value.serialize(ser)
Serialize ==
    /\ \E d \in SerValues : out' = [op |-> "serialize", d |-> d, wire |-> serialize(d)]
    /\ UNCHANGED <<engine, global, lib, this_ptr, scope, caches, ast, stack, ret, trace, call>>

NextSer == Serialize

SpecSer == InitSer /\ [][NextSer]_vars

----------------------------------------------------------------------------
(***************************************************************************)
(* Conversion of integers into dynamic values (serde/ser.rs, the           *)
(* serialize_i8 .. serialize_u128 methods of the DynamicSerializer).  The  *)
(* widths are scaled down: the 64-bit types have IntBits bits, the 8-, 16- *)
(* and 32-bit types 6, 4 and 2 bits fewer and the 128-bit types 2 bits     *)
(* more.  INT is the 64-bit signed type, or the 32-bit one in a build with *)
(* only_i32.  A host variant is Custom of the type and the number it       *)
(* holds.                                                                  *)
(***************************************************************************)
SignedTypes == {"i8", "i16", "i32", "i64", "i128"}
UnsignedTypes == {"u8", "u16", "u32", "u64", "u128"}
Width(ty) ==
    CASE ty \in {"i8", "u8"} -> IntBits - 6
      [] ty \in {"i16", "u16"} -> IntBits - 4
      [] ty \in {"i32", "u32"} -> IntBits - 2
      [] ty \in {"i64", "u64"} -> IntBits
      [] ty \in {"i128", "u128"} -> IntBits + 2
MAX(ty) ==
    IF ty \in SignedTypes THEN (2 ^ (Width(ty) - 1)) - 1 ELSE (2 ^ Width(ty)) - 1
MIN(ty) == IF ty \in SignedTypes THEN -(2 ^ (Width(ty) - 1)) ELSE 0
Range(ty) == MIN(ty)..MAX(ty)

\* `v as i64`, `v as i32`: the low bits of v read as a signed number
as_signed(v, ty) == ((v - MIN(ty)) % (2 ^ Width(ty))) + MIN(ty)

\* Dynamic::from(v) for a number that is not INT: a host variant holding it
Variant(ty, v) == Custom([ty |-> ty, v |-> v])

\* ser.rs 128-133
serialize_i32(only_i32, v) == IntV(v)

\* ser.rs 135-146
serialize_i64(only_i32, v) ==
    IF ~only_i32 THEN IntV(v)
    ELSE IF v > MAX("i32") THEN Variant("i64", v)
    ELSE serialize_i32(only_i32, as_signed(v, "i32"))

\* ser.rs 148-216: the wider types and the unsigned ones compare with the maximum of
\* INT and otherwise cast
serialize_wide(only_i32, ty, v) ==
    IF ~only_i32
    THEN IF v > MAX("i64") THEN Variant(ty, v)
         ELSE serialize_i64(only_i32, as_signed(v, "i64"))
    ELSE IF v > MAX("i32") THEN Variant(ty, v)
         ELSE serialize_i32(only_i32, as_signed(v, "i32"))

\* ser.rs 114-216: serialize_<ty>(v)
serialize_int(only_i32, ty, v) ==
    CASE ty \in {"i8", "i16", "u8", "u16"} ->
            IF ~only_i32 THEN serialize_i64(only_i32, v) ELSE serialize_i32(only_i32, v)
      [] ty = "i32" -> IF ~only_i32 THEN serialize_i64(only_i32, v) ELSE serialize_i32(only_i32, v)
      [] ty = "i64" -> serialize_i64(only_i32, v)
      [] ty = "u32" -> IF ~only_i32 THEN serialize_i64(only_i32, v)
                       ELSE serialize_wide(only_i32, ty, v)
      [] ty \in {"i128", "u64", "u128"} -> serialize_wide(only_i32, ty, v)

(***************************************************************************)
(* One integer is converted per step; the build is drawn at the start.     *)
(***************************************************************************)
InitToDynamic ==
    /\ engine = DefaultEngine
    /\ global = DefaultGlobal
    /\ lib = {}
    /\ this_ptr = NoThis
    /\ scope = <<>>
    /\ caches = EmptyCache
    /\ ast = UnitExpr
    /\ stack = <<>>
    /\ ret = NoRet
    /\ trace = <<>>
    /\ call = 0
    /\ \E only_i32 \in BOOLEAN : out = [op |-> "none", only_i32 |-> only_i32]

\* to_dynamic(v) for an integer v of type ty
ToDynamic ==
    /\ out.op = "none"
    /\ \E ty \in SignedTypes \cup UnsignedTypes :
          \E v \in Range(ty) :
             out' = [op |-> "to_dynamic", only_i32 |-> out.only_i32, ty |-> ty, v |-> v,
                     r |-> serialize_int(out.only_i32, ty, v)]
    /\ UNCHANGED <<engine, global, lib, this_ptr, scope, caches, ast, stack, ret, trace, call>>

NextToDynamic == ToDynamic

SpecToDynamic == InitToDynamic /\ [][NextToDynamic]_vars

----------------------------------------------------------------------------
(***************************************************************************)
(* Properties of variable resolution (checked under SpecVar).              *)
(***************************************************************************)
SetMax(S) == CHOOSE i \in S : \A j \in S : i >= j
SetMin(S) == CHOOSE i \in S : \A j \in S : i <= j
Resolved == out.op = "search_namespace"
RefIndex(expr) == IF expr.short > 0 THEN expr.short ELSE expr.long
\* the scope entry that a reverse index designates: position len(scope) - index
EntryAt(index) == scope[(Len(scope) - index) + 1].value

StripHints(expr) == [expr EXCEPT !.short = 0, !.long = 0, !.ns_index = 0]

\* C8: with always-search-scope on, index hints are ignored: the resolver gets hint
\* 0, a reference other than `this` resolves exactly as the same reference without
\* hints does (by name: to a scope entry of that name when the scope has one and the
\* resolver does not answer), and a namespace root that names an import resolves by
\* text match to an import of that name whatever index is stored.
C8_HintsIgnored ==
    (Resolved /\ global.always_search_scope /\ out.expr.name # KEYWORD_THIS)
    => LET expr == out.expr
           named == {i \in 1..Len(scope) : scope[i].name = expr.name}
           roots == {i \in 1..Len(global.imports) : global.imports[i].name = expr.ns[1]}
           Has(m) == \E k \in 1..Len(m.vars) : m.vars[k].hash = expr.hash_var
           ValueIn(m) == m.vars[SetMin({k \in 1..Len(m.vars) :
                                           m.vars[k].hash = expr.hash_var})].val.v
       IN /\ \A k \in 1..Len(out.r.hints) : out.r.hints[k].index = 0
          /\ out.r = search_namespace(engine, global, lib, this_ptr, scope,
                                      StripHints(expr), out.pos)
          /\ (expr.ns = <<>> /\ out.r.via # "resolver" /\ named # {})
                => \E i \in named : out.r.res = OkAt(scope[i].value, out.pos)
          /\ (expr.ns # <<>> /\ roots # {})
                => \E i \in roots :
                      LET m == global.imports[i].module
                      IN IF Has(m) THEN out.r.res.ok /\ out.r.res.val.v = ValueIn(m)
                         ELSE ~out.r.res.ok

\* C8 witness: a stale index hint that names another entry than the name does
C8_Witness ==
    /\ Resolved /\ global.always_search_scope /\ out.expr.short > 0
    /\ out.expr.name # KEYWORD_THIS
    /\ out.r.via = "scope"
    /\ out.r.res.val # EntryAt(out.expr.short)

\* C9: a reference that reaches the lookup by name (no usable index hint, not
\* answered by the resolver) resolves to the highest-index scope entry of that name;
\* only when the scope has none, to the variable of the first global module that
\* defines it; otherwise VariableNotFound with the name and the variable's position.
C9_NameLookupOrder ==
    (Resolved /\ out.expr.ns = <<>>
        /\ var_arm(global, lib, out.expr) \notin {"this", "fn_ptr"}
        /\ (global.always_search_scope \/ RefIndex(out.expr) = 0)
        /\ (engine.resolve_var = "absent"
             \/ resolve_var(engine.resolve_var, out.expr.name, 0).tag = "None"))
    => LET name == out.expr.name
           named == {i \in 1..Len(scope) : scope[i].name = name}
           Has(m) == \E k \in 1..Len(m.vars) : m.vars[k].hash = <<<<>>, name>>
           defs == {i \in 1..Len(engine.global_modules) : Has(engine.global_modules[i])}
       IN IF named # {}
          THEN out.r.res = OkAt(scope[SetMax(named)].value, out.pos)
          ELSE IF defs # {}
          THEN LET m == engine.global_modules[SetMin(defs)]
                   k == SetMin({j \in 1..Len(m.vars) : m.vars[j].hash = <<<<>>, name>>})
               IN out.r.res = OkAt(m.vars[k].val, out.pos)
          ELSE out.r.res = Err("ErrorVariableNotFound", <<name>>, out.pos)

\* C9 witness: the name is absent from the scope and defined by two global modules
C9_Witness ==
    /\ Resolved /\ out.r.via = "global_module"
    /\ Len(engine.global_modules) = 2
    /\ out.expr.name = "x"
    /\ out.r.res.val = IntV(34)

\* C10: errors of a namespace-qualified reference: a resolved module (an import of
\* the root's name or the indexed import first, then the global sub-modules) without
\* the variable gives VariableNotFound; no module and the single segment `global`
\* gives VariableNotFound when the name is missing from the constants table or the
\* table is absent; no module otherwise gives ModuleNotFound.
C10_QualifiedErrors ==
    (Resolved /\ out.expr.ns # <<>>)
    => LET expr == out.expr
           root == expr.ns[1]
           index == IF global.always_search_scope THEN 0 ELSE expr.ns_index
           roots == {i \in 1..Len(global.imports) : global.imports[i].name = root}
           subs == {i \in 1..Len(engine.global_sub_modules) :
                        engine.global_sub_modules[i].name = root}
           resolves == index > 0 \/ roots # {} \/ subs # {}
           candidates ==
               IF index > 0 THEN {global.imports[(Len(global.imports) - index) + 1].module}
               ELSE IF roots # {} THEN {global.imports[i].module : i \in roots}
               ELSE {engine.global_sub_modules[i].module : i \in subs}
           Has(m) == \E k \in 1..Len(m.vars) : m.vars[k].hash = expr.hash_var
           in_table == /\ global.constants.some
                       /\ \E k \in 1..Len(global.constants.get) :
                             global.constants.get[k].name = expr.name
           kind == IF out.r.res.ok THEN "Ok" ELSE out.r.res.err.kind
       IN /\ resolves
                => \E m \in candidates :
                      kind = (IF Has(m) THEN "Ok" ELSE "ErrorVariableNotFound")
          /\ (~resolves /\ expr.ns = <<KEYWORD_GLOBAL>> /\ ~in_table)
                => kind = "ErrorVariableNotFound"
          /\ (~resolves /\ expr.ns = <<KEYWORD_GLOBAL>> /\ in_table) => kind = "Ok"
          /\ (~resolves /\ expr.ns # <<KEYWORD_GLOBAL>>) => kind = "ErrorModuleNotFound"

\* C10 witness: `global::s::x` with no module of that name is a missing module, and
\* not a missing variable
C10_Witness ==
    /\ Resolved /\ out.expr.ns = <<KEYWORD_GLOBAL, "s">>
    /\ ~out.r.res.ok
    /\ out.r.res.err.kind = "ErrorModuleNotFound"

\* the modules a resolution can have read, and the access modes they store for a name
StoredModes(mods, hash) ==
    UNION {{mods[i].vars[k].val.access :
                k \in {j \in 1..Len(mods[i].vars) : mods[i].vars[j].hash = hash}} :
           i \in 1..Len(mods)}
FromModule == {"module", "constants", "global_module"}

C12_FunctionNameYieldsPointer ==
    (Resolved /\ out.expr.ns = <<>> /\ RefIndex(out.expr) = 0
        /\ out.expr.name # KEYWORD_THIS /\ out.expr.name \in lib)
    => /\ out.r.res = OkAt(FnPtr(out.expr.name), out.pos)
       /\ out.r.via = "fn_ptr"
       /\ out.r.hints = <<>>

\* C12 amended: with always-search-scope off, such an identifier resolves to a
\* function pointer bound to the name without any variable lookup; with
\* always-search-scope on it is looked up as a variable like any other name (the
\* resolver first when installed, then the scope and the global modules).
C12_FunctionNameUnlessAlwaysSearch ==
    (Resolved /\ out.expr.ns = <<>> /\ RefIndex(out.expr) = 0
        /\ out.expr.name # KEYWORD_THIS /\ out.expr.name \in lib)
    => IF global.always_search_scope
       THEN /\ out.r.via \in {"resolver", "scope", "global_module", "not_found"}
            /\ (engine.resolve_var # "absent") = (out.r.hints # <<>>)
            /\ out.r.via = "scope" => out.r.res.val.ty # "Fn"
       ELSE /\ out.r.res = OkAt(FnPtr(out.expr.name), out.pos)
            /\ out.r.via = "fn_ptr"
            /\ out.r.hints = <<>>

\* C12 witness: the name of a script function that is also a variable of the scope,
\* with a resolver installed, yields the function pointer
C12_Witness ==
    /\ Resolved /\ out.r.via = "fn_ptr" /\ out.expr.name = "x"
    /\ RefIndex(out.expr) = 0
    /\ engine.resolve_var = "value_x"
    /\ \E i \in 1..Len(scope) : scope[i].name = "x"
    /\ out.r.res.val = FnPtr("x")

----------------------------------------------------------------------------
(***************************************************************************)
(* Properties of the evaluation of an expression (checked under Spec).     *)
(* trace holds, in order, an "enter" event for every call of eval_expr     *)
(* and an "exit" event for every return.                                   *)
(***************************************************************************)
Events == 1..Len(trace)
IsEnter(k) == trace[k].ev = "enter"
IsExit(k) == trace[k].ev = "exit"
EnterOf(p) == {k \in Events : IsEnter(k) /\ trace[k].path = p}
ExitOf(p) == {k \in Events : IsExit(k) /\ trace[k].path = p}
Parent(p) == SubSeq(p, 1, Len(p) - 1)
Finished == stack = <<>> /\ ret.some
IsBool(r, b) == r.ok /\ r.val.ty = "bool" /\ r.val.v = b

\* C1: when the left operand of `&&` returns false, or the left operand of `||`
\* returns true, eval_expr is never called on the right operand (so nothing of it
\* counts an operation, touches the scope or fails), and the `&&` / `||` returns
\* Bool false / Bool true at once, with the operation counter and the scope as the
\* left operand left them.
C1_ShortCircuit ==
    \A k \in Events :
        LET ev == trace[k]
            p == Parent(ev.path)
            decided == NodeAt(ast, p).kind = "Or"
        IN (/\ IsExit(k) /\ ev.path # <<>> /\ ev.path[Len(ev.path)] = 1
            /\ NodeAt(ast, p).kind \in {"And", "Or"}
            /\ IsBool(ev.res, decided))
           => /\ EnterOf(Append(p, 2)) = {}
              /\ \A j \in ExitOf(p) :
                    /\ j = k + 1
                    /\ trace[j].res = Ok(BoolV(decided))
                    /\ trace[j].ops = ev.ops
                    /\ trace[j].slen = ev.slen
              /\ k < Len(trace) => ExitOf(p) # {}

\* C1 witness: `false && z` with z undefined has returned Bool false
C1_Witness ==
    /\ Finished /\ ast.kind = "And" /\ ast.rhs = Var("z")
    /\ ret.get = Ok(BoolV(FALSE))
    /\ EnterOf(<<1>>) # {} /\ EnterOf(<<2>>) = {}

ListKinds == {"FnCall", "Array", "Map", "InterpolatedString"}

\* C2: the arguments of a function call, the elements of an array literal, the
\* values of a map literal and the segments of an interpolated string are evaluated
\* in source order, each at most once: sub-expression i is entered only after
\* sub-expression i-1 has returned a value, and when sub-expression i returns an
\* error no later sub-expression is entered and the whole expression returns that
\* error.
C2_SourceOrder ==
    \A k \in Events :
        (IsEnter(k) /\ NodeAt(ast, trace[k].path).kind \in ListKinds)
        => LET p == trace[k].path
               n == Len(Children(NodeAt(ast, p)))
               In(i) == EnterOf(Append(p, i))
               Out(i) == ExitOf(Append(p, i))
           IN \A i \in 1..n :
                 /\ Cardinality(In(i)) <= 1
                 /\ \A j \in In(i) : j > k
                 /\ (i > 1 /\ In(i) # {})
                       => \E e \in Out(i - 1) :
                             trace[e].res.ok /\ \A j \in In(i) : e < j
                 /\ \A e \in Out(i) :
                       ~trace[e].res.ok
                       => /\ \A m \in (i + 1)..n : In(m) = {}
                          /\ \A x \in ExitOf(p) : trace[x].res = trace[e].res

\* C2 witness: an array literal of three elements whose second element failed
C2_Witness ==
    /\ Finished /\ ast.kind = "Array" /\ Len(ast.items) = 3
    /\ \E e \in ExitOf(<<1>>) : trace[e].res.ok
    /\ \E e \in ExitOf(<<2>>) : ~trace[e].res.ok /\ ret.get = trace[e].res
    /\ EnterOf(<<3>>) = {}

EnterCount(k) == Cardinality({j \in 1..k : IsEnter(j)})
TooManyAt(pos) == Err("ErrorTooManyOperations", <<>>, pos)

\* C5: every call of eval_expr adds exactly one to the operation counter, before
\* anything of the expression is evaluated; a call that takes the counter past the
\* ceiling returns TooManyOperations, every enclosing call returns that error
\* without entering another expression, and so under a ceiling c > 0 an evaluation
\* makes at most c + 1 calls of eval_expr.
C5_OperationCounter ==
    /\ \A k \in Events : IsEnter(k) => trace[k].ops = EnterCount(k)
    /\ global.num_operations = EnterCount(Len(trace))
    /\ engine.max_operations > 0
          => /\ EnterCount(Len(trace)) <= engine.max_operations + 1
             /\ \A k \in Events :
                   (IsEnter(k) /\ trace[k].ops > engine.max_operations)
                   => \A j \in (k + 1)..Len(trace) :
                         IsExit(j) /\ trace[j].res = TooManyAt(trace[k].path)
             /\ (Finished /\ global.num_operations > engine.max_operations)
                   => ~ret.get.ok /\ ret.get.err.kind = "ErrorTooManyOperations"

\* C5 witness: under a ceiling of at least two, an evaluation was halted by the
\* visit after the ceiling
C5_Witness ==
    /\ Finished /\ engine.max_operations >= 2
    /\ global.num_operations = engine.max_operations + 1
    /\ ~ret.get.ok /\ ret.get.err.kind = "ErrorTooManyOperations"
    /\ Len(trace[Len(trace)].path) = 0 /\ Len(ret.get.err.pos) > 0


\* the result with which the call of eval_expr on the node at path p returned
ResultOf(p) == trace[CHOOSE k \in ExitOf(p) : TRUE].res
Returned(p) == ExitOf(p) # {}
Mismatch(r, pos) == Err("ErrorMismatchDataType", <<"bool", r.val.ty>>, pos)

\* C13: for `a ?? b`, b is evaluated if and only if a returned Unit, and the result
\* is then b's result (value or error); when a returned any other value or an error,
\* that value or error is the result and b is not evaluated.
C13_NullCoalesce ==
    \A k \in Events :
        (IsEnter(k) /\ NodeAt(ast, trace[k].path).kind = "Coalesce")
        => LET p == trace[k].path
               lhs == Append(p, 1)
               rhs == Append(p, 2)
               unit == Returned(lhs) /\ ResultOf(lhs).ok /\ ResultOf(lhs).val.ty = "()"
           IN /\ EnterOf(rhs) # {} => unit
              /\ (Finished /\ unit) => Returned(rhs)
              /\ (Returned(p) /\ Returned(lhs))
                    => ResultOf(p) = (IF unit THEN ResultOf(rhs) ELSE ResultOf(lhs))

\* C13 witness: `() ?? 1` has evaluated both operands and returned 1, and `1 ?? z`
\* is covered by the same trees with the right operand left alone
C13_Witness ==
    /\ Finished /\ ast = Coalesce(UnitExpr, IntegerConstant(1))
    /\ EnterOf(<<2>>) # {}
    /\ ret.get = Ok(IntV(1))

\* C14: for `a && b` and `a || b`: when a returns an error it is the result and b is
\* not evaluated; when a returns a value that is not a Bool the result is
\* TypeMismatch at a's position and b is not evaluated; when b is evaluated and
\* returns a value that is not a Bool the result is TypeMismatch at b's position;
\* and every value the expression returns is a Bool.
C14_BoolOperands ==
    \A k \in Events :
        (IsEnter(k) /\ NodeAt(ast, trace[k].path).kind \in {"And", "Or"}
            /\ Returned(trace[k].path) /\ Returned(Append(trace[k].path, 1)))
        => LET p == trace[k].path
               lhs == Append(p, 1)
               rhs == Append(p, 2)
               l == ResultOf(lhs)
               r == ResultOf(rhs)
           IN /\ ~l.ok => (ResultOf(p) = l /\ EnterOf(rhs) = {})
              /\ (l.ok /\ l.val.ty # "bool")
                    => (ResultOf(p) = Mismatch(l, lhs) /\ EnterOf(rhs) = {})
              /\ (Returned(rhs) /\ r.ok /\ r.val.ty # "bool")
                    => ResultOf(p) = Mismatch(r, rhs)
              /\ (Returned(rhs) /\ ~r.ok) => ResultOf(p) = r
              /\ ResultOf(p).ok => ResultOf(p).val.ty = "bool"

\* C14 witness: `true && 1` has evaluated both operands and failed with the type
\* mismatch at the right operand
C14_Witness ==
    /\ Finished /\ ast = And(T, IntegerConstant(1))
    /\ EnterOf(<<2>>) # {}
    /\ ret.get = Err("ErrorMismatchDataType", <<"bool", "i64">>, <<2>>)

\* C27 as stated: whenever the debugger hook ran on entry to eval_expr and returned a
\* status, the debugger is in that status when the call returns, on every exit path
C27_DebuggerRestored ==
    \A i \in 1..Len(trace) :
        trace[i].ev = "exit" /\ trace[i].reset.some
        => trace[i].debugger = trace[i].reset.get

----------------------------------------------------------------------------
(***************************************************************************)
(* Properties of function calls (checked under SpecCall).                  *)
(***************************************************************************)
Made == out.op = "call"

\* C4 as stated: every call returns the same value or error whether the resolution
\* cache keeps the entries of the earlier calls or is cleared before the call.
C4_CacheTransparent == Made => out.r = out.cleared

\* the registry resolves every cell of the dispatch table to the standard function
RegistryAgrees ==
    \A c \in OperatorNames \X ModelTypes \X ModelTypes :
        HasCell(c[1], c[2], c[3]) => Entry(c[1], <<c[2], c[3]>>, "std") \in engine.registry

\* C6 as stated: every call returns the same value or error with fast-operator mode
\* on as with fast-operator mode off, whatever the registry.
C6_ModeNeutral == Made => out.r = out.flipped

\* C6 amended: a run of calls returns the same values and errors with fast-operator
\* mode on as with it off provided that, for every operator and pair of operand
\* types that has a cell in the dispatch table, the function the registry resolves
\* behaves as that cell; the host may register operators of its own on other
\* operand types.
C6_NeutralWhenRegistryAgrees == (Made /\ RegistryAgrees) => out.r = out.flipped

\* C6 witness: with the host's `+` on its own type registered, a second operator
\* call on built-in operand types of different types is answered by the table
C6_Witness ==
    /\ Made /\ RegistryAgrees /\ engine.fast_operators /\ call = 2
    /\ Entry("+", <<"T", "T">>, "answer") \in engine.registry
    /\ out.expr.is_native_operator /\ out.expr.name = "=="
    /\ out.expr.args[1].val.ty = "i64" /\ out.expr.args[2].val.ty = "string"
    /\ out.r = Ok(BoolV(FALSE)) /\ out.flipped = out.r


\* the slot of the call just made, in the cache as it stood before the call
SlotBefore == combine_hashes(out.expr.hashes, ArgValues(engine, out.expr))
HitNegative ==
    /\ Made /\ fast_path(engine, out.expr)
    /\ SlotBefore \in DOMAIN out.before
    /\ ~out.before[SlotBefore].some

\* C15: once the resolution cache holds the negative marker for a combined hash, a
\* later fast-path operator call with that hash fails with FunctionNotFound carrying
\* the signature built from the name and the operand types, leaves the cache as it
\* was, and does so whatever the function registry holds for that signature.
C15_NegativeCaching ==
    HitNegative
    => LET args == ArgValues(engine, out.expr)
           failure == Err("ErrorFunctionNotFound", <<out.expr.name>> \o Types(args), <<>>)
       IN /\ out.r = failure
          /\ caches = out.before
          /\ \A fn \in {"std", "answer", "throw"} :
                LET reg == Override(engine.registry, out.expr.name, Types(args), fn)
                    e == [engine EXCEPT !.registry = reg]
                IN eval_fn_call_values(e, out.before, out.expr, args, <<>>)
                      = Called(failure, out.before)

\* C15 witness: the second `!v` on a host value, after the first found no function
C15_Witness ==
    /\ HitNegative /\ call = 2
    /\ out.expr.name = "!" /\ Len(out.expr.args) = 1
    /\ ~out.r.ok /\ out.r.err.kind = "ErrorFunctionNotFound"

\* a fast-path call whose slot was vacant before the call
VacantFastCall ==
    /\ Made /\ fast_path(engine, out.expr)
    /\ SlotBefore \notin DOMAIN out.before
\* the cell of the dispatch table for the call just made
TableCell ==
    LET args == ArgValues(engine, out.expr)
    IN IF Len(args) = 2 THEN get_builtin_binary_op_fn(out.expr.name, args[1], args[2])
       ELSE None

\* C26: a fast-path call on a vacant slot: on a table hit the cache gains exactly the
\* entry for that slot, holding the built-in cell, and the result is that of calling the
\* cell; on a table miss the call is what the general path makes of it on the cache as
\* it stood, the fast path having written nothing; every other entry is as before
C26_FastPathCacheWrites ==
    VacantFastCall
    => LET args == ArgValues(engine, out.expr)
       IN /\ \A k \in DOMAIN out.before : k \in DOMAIN caches /\ caches[k] = out.before[k]
          /\ DOMAIN caches \subseteq DOMAIN out.before \cup {SlotBefore}
          /\ TableCell.some =>
                /\ SlotBefore \in DOMAIN caches
                /\ caches[SlotBefore] = Some(Builtin(TableCell.get))
                /\ out.r = check_return_value(engine,
                                              call_fn(Builtin(TableCell.get), out.expr.name, args),
                                              <<>>)
          /\ ~TableCell.some =>
                Called(out.r, caches)
                    = exec_fn_call(engine, out.before, out.expr.name, out.expr.hashes, args, <<>>)
\* C26 witness: a second call, of another operator, hits the table and adds its entry to
\* the one the first call left
C26_Witness ==
    /\ VacantFastCall /\ TableCell.some /\ call = 2
    /\ DOMAIN out.before # {}
    /\ DOMAIN caches = DOMAIN out.before \cup {SlotBefore}

----------------------------------------------------------------------------
(***************************************************************************)
(* Properties of the operator dispatch table (checked under SpecOp).       *)
(***************************************************************************)
Looked == out.op \in {"get", "invoke"}
Invoked == out.op = "invoke"
Pair == <<type_id(out.x), type_id(out.y)>>
HostTypes == {"T", "U", "u8", "u16"}
NumericTypes == {"i64", "f64", "u8", "u16"}
BothNumeric == Pair[1] \in NumericTypes /\ Pair[2] \in NumericTypes
Differ == Pair[1] # Pair[2]
HostOperand == Pair[1] \in HostTypes \/ Pair[2] \in HostTypes
StringChar == Pair \in {<<"string", "char">>, <<"char", "string">>}
\* `==` false, `!=` true, every ordering false
Default == Ok(BoolV(out.name = "!="))
ValuesOf(t) == {v \in OpValues : type_id(v) = t}

\* C16 as stated: for two operands of different types, neither a host variant and
\* not both numeric, every comparison operator has a cell, which (string/char
\* apart) gives `==` false, `!=` true and every ordering false, and the table
\* returns None only for operators that are not comparisons.
C16_DefaultComparison ==
    (Looked /\ Differ /\ ~HostOperand /\ ~BothNumeric)
    => /\ out.name \in Comparisons => out.cell.some
       /\ (Invoked /\ out.name \in Comparisons /\ ~StringChar) => out.r = Default

\* the pairs of types whose listed cell ends the search with fewer operators
ContainsOnly ==
    {<<"blob", "i64">>, <<"map", "string">>, <<"range", "i64">>, <<"range_incl", "i64">>}
AppendOnly == {<<"blob", "char">>}
EqualityOnly == {<<"range", "range_incl">>, <<"range_incl", "range">>}

\* C16 amended: as stated, except that for (blob, int), (map, string) and
\* (range, int) the table has a cell for `contains` alone, for (blob, char) for `+`
\* alone, and for an exclusive with an inclusive range for `==` and `!=` alone:
\* for these pairs the other comparison operators get None.
C16_DefaultComparisonUnlessListed ==
    (Looked /\ Differ /\ ~HostOperand /\ ~BothNumeric)
    => IF Pair \in ContainsOnly THEN out.cell.some = (out.name = OP_CONTAINS)
       ELSE IF Pair \in AppendOnly THEN out.cell.some = (out.name = "+")
       ELSE IF Pair \in EqualityOnly
       THEN /\ out.cell.some = (out.name \in {"==", "!="})
            /\ Invoked => out.r = Default
       ELSE /\ out.name \in Comparisons => out.cell.some
            /\ (Invoked /\ out.name \in Comparisons /\ ~StringChar) => out.r = Default

\* C16 witness: `1 < true` is answered by the default cell with false
C16_Witness ==
    /\ Invoked /\ out.name = "<" /\ out.x = IntV(1) /\ out.y = BoolV(TRUE)
    /\ out.r = Ok(BoolV(FALSE))

\* C17 as stated: when at least one operand is a host value and the types differ,
\* every comparison operator has a default cell (`==` false, `!=` true, orderings
\* false); when the types are equal the table returns None for every operator.
C17_HostVariant ==
    (Looked /\ HostOperand)
    => IF Differ
       THEN /\ out.name \in Comparisons => out.cell.some
            /\ (Invoked /\ out.name \in Comparisons) => out.r = Default
       ELSE ~out.cell.some

\* C17 amended: when at least one operand is a host value: if both types are
\* numeric the table returns None for every operator; otherwise, if the types
\* differ, exactly the comparison operators have a cell, the default one; if the
\* types are equal the table returns None for every operator.
C17_HostVariantUnlessNumeric ==
    (Looked /\ HostOperand)
    => IF BothNumeric \/ ~Differ THEN ~out.cell.some
       ELSE /\ out.cell.some = (out.name \in Comparisons)
            /\ Invoked => out.r = Default

\* C17 witness: a host value compared with an integer by `!=` gives true
C17_Witness ==
    /\ Invoked /\ out.name = "!=" /\ out.x = Custom(1) /\ out.y = IntV(1)
    /\ out.r = Ok(BoolV(TRUE))

Padded(s) ==
    <<IF Len(s) >= 1 THEN Code(s[1]) ELSE 0, IF Len(s) >= 2 THEN Code(s[2]) ELSE 0>>
PairLess(a, b) == a[1] < b[1] \/ (a[1] = b[1] /\ a[2] < b[2])
PairHolds(op, a, b) ==
    CASE op = "==" -> a = b
      [] op = "!=" -> a # b
      [] op = "<" -> PairLess(a, b)
      [] op = "<=" -> ~PairLess(b, a)
      [] op = ">" -> PairLess(b, a)
      [] op = ">=" -> ~PairLess(a, b)

\* C19: a comparison of a string s with a char c (in either operand order) is the
\* lexicographic comparison of [first char of s or NUL, second char of s or NUL]
\* with [c, NUL], in operand order; strings that agree on their first two
\* characters give the same result.
C19_StringCharComparison ==
    (Invoked /\ StringChar /\ out.name \in Comparisons)
    => LET left == IF Pair[1] = "string" THEN Padded(out.x.v) ELSE <<Code(out.x.v), 0>>
           right == IF Pair[2] = "string" THEN Padded(out.y.v) ELSE <<Code(out.y.v), 0>>
           s == IF Pair[1] = "string" THEN out.x ELSE out.y
           With(t) == IF Pair[1] = "string" THEN <<t, out.y>> ELSE <<out.x, t>>
       IN /\ out.r = Ok(BoolV(PairHolds(out.name, left, right)))
          /\ \A t \in ValuesOf("string") :
                Padded(t.v) = Padded(s.v)
                => call_builtin(out.cell.get, With(t)[1], With(t)[2]) = out.r

\* C19 witness: "abc" > 'a' is true, decided by the second character
C19_Witness ==
    /\ Invoked /\ out.name = ">"
    /\ out.x = StrV(<<"a", "b", "c">>) /\ out.y = Dyn("char", "a")
    /\ out.r = Ok(BoolV(TRUE))

IsCall(op, s, t) ==
    Invoked /\ out.name = op /\ out.x = StrV(Text(s)) /\ out.y = StrV(Text(t))

\* C20 as stated: the built-in `<` on strings looks at the first two characters
\* only: "apricot" < "apple" is true and "apple" < "banana" is true.
C20_FirstTwoCharacters ==
    /\ IsCall("<", "apricot", "apple") => out.r = Ok(BoolV(TRUE))
    /\ IsCall("<", "apple", "banana") => out.r = Ok(BoolV(TRUE))

\* a is before b: a is a proper prefix of b, or a has the smaller character at the
\* first position where they differ
Before(a, b) ==
    \E i \in 1..Len(b) :
        /\ i - 1 <= Len(a)
        /\ SubSeq(a, 1, i - 1) = SubSeq(b, 1, i - 1)
        /\ (i > Len(a) \/ Code(a[i]) < Code(b[i]))

\* C20 amended: the built-in orderings on two strings compare the whole strings
\* character by character: "apple" < "banana" is true, "apricot" < "apple" is
\* false (they first differ at the third character, 'r' against 'p').
C20_WholeStringOrdering ==
    /\ IsCall("<", "apricot", "apple") => out.r = Ok(BoolV(FALSE))
    /\ IsCall("<", "apple", "banana") => out.r = Ok(BoolV(TRUE))
    /\ (Invoked /\ Pair = <<"string", "string">>)
          => /\ out.name = "<" => out.r = Ok(BoolV(Before(out.x.v, out.y.v)))
             /\ out.name = ">" => out.r = Ok(BoolV(Before(out.y.v, out.x.v)))
             /\ out.name = "<=" => out.r = Ok(BoolV(~Before(out.y.v, out.x.v)))
             /\ out.name = ">=" => out.r = Ok(BoolV(~Before(out.x.v, out.y.v)))

\* C20 witness: "apricot" < "apple" has been invoked and returned false
C20_Witness == IsCall("<", "apricot", "apple") /\ out.r = Ok(BoolV(FALSE))

----------------------------------------------------------------------------
(***************************************************************************)
(* Properties of the two tables (checked under SpecAssign).                *)
(***************************************************************************)
\* a cell of either table was invoked
Applied == out.op \in {"invoke", "assign"}
\* the operator the invoked cell applies
Operator == IF out.op = "assign" THEN Binary(out.name) ELSE out.name
\* both operands are INT
IntOperands == out.x.ty = "i64" /\ out.y.ty = "i64"
Arithmetic(r) == ~r.ok /\ r.err.kind = "ErrorArithmetic"
Fits(n) == MinInt <= n /\ n <= MaxInt
\* the invoked cell delivered the INT n: returned by a binary cell, left in the first
\* operand by an op-assignment cell
Delivered(n) ==
    IF out.op = "invoke" THEN out.r = Ok(IntV(n))
    ELSE out.r.ok /\ out.args[1] = IntV(n)
ExactOrError(n) == IF Fits(n) THEN Delivered(n) ELSE Arithmetic(out.r)

\* C21: in the checked build, on INT operands the cells of + - * / % ** << >>
\* (of either table) deliver the exact mathematical result when it fits INT and an
\* arithmetic error when it does not or when the divisor is zero; the cells of the
\* comparisons and of & | ^ never fail.  (Exponents and shift counts are taken from
\* zero up; division truncates toward zero.)
C21_CheckedArithmetic ==
    Applied /\ IntOperands =>
        LET x == out.x.v
            y == out.y.v
            op == Operator
        IN /\ op = "+" => ExactOrError(x + y)
           /\ op = "-" => ExactOrError(x - y)
           /\ op = "*" => ExactOrError(x * y)
           /\ op \in {"/", "%"} /\ y = 0 => Arithmetic(out.r)
           /\ op \in {"/", "%"} /\ y # 0 =>
                 \E q \in (MinInt - 1)..(MaxInt + 1), r \in MinInt..MaxInt :
                     /\ x = (q * y) + r
                     /\ Abs(r) < Abs(y)
                     /\ r = 0 \/ ((r < 0) = (x < 0))
                     /\ IF op = "/" THEN ExactOrError(q) ELSE Delivered(r)
           /\ op = "**" /\ y >= 0 => ExactOrError(Power(x, y))
           /\ op = "<<" /\ y >= 0 => ExactOrError(x * Power(2, y))
           /\ op = ">>" /\ y >= 0 =>
                 \E n \in MinInt..MaxInt :
                     /\ n * Power(2, y) <= x
                     /\ x < (n + 1) * Power(2, y)
                     /\ Delivered(n)
           /\ op \in Comparisons \cup BitOps => out.r.ok
C21_Witness ==
    /\ out.op = "assign" /\ IntOperands
    /\ out.name = "*=" /\ out.x.v = MaxInt /\ out.y.v = 2
    /\ Arithmetic(out.r)

\* the op-assignment table was consulted (and its cell perhaps invoked)
Consulted == out.op \in {"get assign", "assign"}
\* the cell left in the first operand the value, or returned the error, that the
\* binary cell returns on the same operands
SameOutcome ==
    out.op = "assign" /\ out.binr.some =>
        IF out.binr.get.ok
        THEN /\ out.r.ok
             /\ out.args[1].ty = out.binr.get.val.ty
             /\ out.args[1].v = out.binr.get.val.v
        ELSE out.r = out.binr.get
\* the pairs of operand types with a binary cell for the operator and no cell for
\* its op-assignment: bool ^ bool, INT with FLOAT, and () with a string
Unmirrored ==
    \/ Binary(out.name) = "^" /\ out.x.ty = "bool" /\ out.y.ty = "bool"
    \/ Binary(out.name) \in FloatOps /\ out.x.ty = "i64" /\ out.y.ty = "f64"
    \/ Binary(out.name) = "+" /\ <<out.x.ty, out.y.ty>> \in {<<"()", "string">>, <<"string", "()">>}

\* C22 as stated: for every operator of + - * / % ** << >> & | ^ and every pair of
\* operands with a binary cell, the op-assignment table has a cell for `op=` and
\* running it leaves in the left operand the value (or returns the error) that the
\* binary cell returns
C22_TableMirrors ==
    /\ Consulted /\ out.bin.some => out.cell.some
    /\ SameOutcome

\* C22, corrected: the op-assignment table has a cell for `op=` wherever the binary
\* table has one for op, except for bool ^ bool, for INT op FLOAT and for () + string
\* and string + (), which have none; wherever both tables have a cell, running the
\* op-assignment cell leaves in the left operand the value, or returns the error,
\* that the binary cell returns on the same operands
C22_TableMirrorsExceptUnmirrored ==
    /\ Consulted /\ out.bin.some => (out.cell.some <=> ~Unmirrored)
    /\ SameOutcome
C22_Witness ==
    /\ out.op = "assign" /\ out.name = "-=" /\ out.binr.some
    /\ out.x = StrV(<<"a", "b", "a">>) /\ out.y = StrV(<<"a">>)
    /\ out.args[1].v = <<"b">>
    /\ out.binr.get = Ok(StrV(<<"b">>))

\* the cells said to move the right operand out: String += String, String -= String,
\* Blob += Blob, Blob += String, Array += Array and Array += any other type
MovesRight ==
    \/ out.x.ty = "string" /\ out.y.ty = "string" /\ out.name \in {"+=", "-="}
    \/ out.x.ty = "blob" /\ out.y.ty \in {"blob", "string"} /\ out.name = "+="
    \/ out.x.ty = "array" /\ out.name = "+="

\* C29: an op-assignment cell writes to the two operand slots only; the right operand
\* is left as it was, except by the cells that move it out, which leave () in its
\* slot; a cell that returns an error leaves the left operand (and the right) as it was
C29_AssignmentFrame ==
    out.op = "assign" =>
        /\ Len(out.args) = 2
        /\ out.r.ok => out.args[2] = (IF MovesRight THEN UNIT ELSE out.y)
        /\ ~out.r.ok => out.args = <<out.x, out.y>>
C29_Witness ==
    /\ out.op = "assign" /\ out.name = "+=" /\ out.r.ok
    /\ out.x = Arr(<<>>) /\ out.y = StrV(<<"a">>)
    /\ out.args = <<Arr(<<StrV(<<"a">>)>>), UNIT>>

----------------------------------------------------------------------------
(***************************************************************************)
(* Properties of the bloom filter (checked under SpecBloom).               *)
(***************************************************************************)
\* is_absent(h) returned
Answered == out.op = "is_absent" /\ ~out.panicked
LowByte(h) == h % 256

C28_LowByteDecides ==
    /\ ~out.panicked
    /\ Answered => (out.result <=> \A m \in out.marked : LowByte(m) # LowByte(out.h))
    /\ \A h1, h2 \in Hashes :
          LowByte(h1) # LowByte(h2) => bloom_hash(out.build, h1) # bloom_hash(out.build, h2)
    /\ \A h \in Hashes :
          /\ bloom_hash(out.build, h).offset < SIZE(out.build)
          /\ Cardinality(bloom_hash(out.build, h).mask) = 1

----------------------------------------------------------------------------
(***************************************************************************)
(* Properties of serialisation (checked under SpecSer).                    *)
(***************************************************************************)
\* the parts of the wire format that do not depend on how a Char is emitted: the
\* other primitives as the serializer's primitive of their kind, an Array as a sequence
\* of its items, a Map as a mapping with one string-keyed entry per key, a function
\* pointer as its name, host values and timestamps as their type name, a Shared value
\* as its underlying value
WireOf(d, w) ==
    /\ d.ty = "()" => w = <<Call("serialize_unit", 0)>>
    /\ d.ty = "bool" => w = <<Call("serialize_bool", d.v)>>
    /\ d.ty = "i64" => w = <<Call("serialize_i64", d.v)>>
    /\ d.ty = "f64" => w = <<Call("serialize_f64", d.v)>>
    /\ d.ty = "string" => w = <<Call("serialize_str", d.v)>>
    /\ d.ty = "array" =>
          /\ w[1] = Call("serialize_seq", Len(d.v))
          /\ w[Len(w)] = Call("end", 0)
          /\ SubSeq(w, 2, Len(w) - 1) = serialize_items(d.v, Len(d.v))
    /\ d.ty = "map" =>
          /\ w[1] = Call("serialize_map", Len(d.v))
          /\ w[Len(w)] = Call("end", 0)
          /\ \A i \in 1..Len(d.v) :
                Cardinality({j \in 2..(Len(w) - 1) : w[j] = Call("serialize_entry", d.v[i].key)}) = 1
          /\ SubSeq(w, 2, Len(w) - 1) = serialize_entries(d.v, Len(d.v))
    /\ d.ty = "Fn" => w = <<Call("serialize_str", d.v)>>
    /\ d.ty \in {"T", "timestamp"} => w = <<Call("serialize_str", d.ty)>>
    /\ d.ty = "Shared" => w = serialize(d.v)

\* C23 as stated: Unit, Bool, Int, Float, Char and Str are each emitted as the
\* serializer's primitive of that kind (a Char by serialize_char), and the other
\* kinds as listed
C23_WireFormat ==
    out.op = "serialize" =>
        /\ WireOf(out.d, out.wire)
        /\ out.d.ty = "char" =>
              Len(out.wire) = 1 /\ out.wire[1].call = "serialize_char"

\* C23, corrected: a Char is emitted as a string of that one character
\* (serialize_str); the other kinds as listed
C23_WireFormatCharAsString ==
    out.op = "serialize" =>
        /\ WireOf(out.d, out.wire)
        /\ out.d.ty = "char" => out.wire = <<Call("serialize_str", <<out.d.v>>)>>
C23_Witness ==
    /\ out.op = "serialize"
    /\ out.d = Arr(<<Dyn("char", "a"), FnPtr("f")>>)
    /\ out.wire = <<Call("serialize_seq", 2), Call("serialize_str", <<"a">>),
                    Call("serialize_str", "f"), Call("end", 0)>>

----------------------------------------------------------------------------
(***************************************************************************)
(* Properties of the conversion of integers (checked under SpecToDynamic). *)
(***************************************************************************)
\* C30 as stated: the result of to_dynamic on an integer of any width is an Int equal
\* to the input or a host variant holding the input; never an Int of another value
C30_ValuePreserving ==
    out.op = "to_dynamic" =>
        \/ out.r = IntV(out.v)
        \/ out.r = Variant(out.ty, out.v)

====
